---- MODULE Spec2Model ----
(***************************************************************************)
(* Model of the JSON-backed balance ledger of ash-and-ivory-gringotts      *)
(* (src/bank.py): the balances.json file, the process-wide lock, and the   *)
(* ledger operations run by several threads.                               *)
(*                                                                         *)
(* Strings are sequences of one-character strings, Optional[str] is a      *)
(* sequence of length 0 (None) or 1 (the string).  Money is its integer    *)
(* `knuts` field.                                                          *)
(***************************************************************************)
EXTENDS Integers, Sequences, FiniteSets, TLC

\* ---------------------------------------------------------------- bounds
NumThreads == 2
MaxBal == 2
MaxAmt == 1

Threads == 1..NumThreads
NoThread == 0
\* seconds between two paid messages of one character
EARN_COOLDOWN_SECONDS == 15

\* user ids passed by the callers
Users == {1, 2}
\* amount.knuts of the Money values passed by the callers
Amounts == (-1)..MaxAmt
\* balances the model lets the store hold (Python ints are unbounded)
InRange(v) == v >= -1 /\ v <= MaxBal
\* the n argument of the leaderboards
TopNs == {0, 2}

\* ------------------------------------------------------- strings and keys
None == <<>>
Some(s) == <<s>>
\* the (user_id, key) arguments the callers pass: user 1 with None, "c" and
\* "C ", user 2 with None and ""
WalletArgs ==
    {<<1, None>>, <<1, Some(<<"c">>)>>, <<1, Some(<<"C", " ">>)>>,
     <<2, None>>, <<2, Some(<<>>)>>}
\* the (user_id, old_key, new_key) arguments of rename_character_key
RenameArgs ==
    {<<1, o, n>> : o \in {<<>>, <<"c">>, <<"C", " ">>},
                   n \in {<<>>, <<"c">>, <<"C", " ">>}}

Digits == <<"0", "1", "2", "3", "4", "5", "6", "7", "8", "9">>

\* str(user_id) for a one-digit id
Str(n) == <<Digits[n + 1]>>

\* str.lower() on the letters of the model
LowerChar(ch) ==
    CASE ch = "A" -> "a"
      [] ch = "B" -> "b"
      [] ch = "C" -> "c"
      [] ch = "D" -> "d"
      [] ch = "G" -> "g"
      [] ch = "K" -> "k"
      [] ch = "S" -> "s"
      [] OTHER -> ch

Lower(s) == [i \in DOMAIN s |-> LowerChar(s[i])]

RECURSIVE LStrip(_)
LStrip(s) == IF s # <<>> /\ Head(s) = " " THEN LStrip(Tail(s)) ELSE s

RECURSIVE RStrip(_)
RStrip(s) ==
    IF s # <<>> /\ s[Len(s)] = " " THEN RStrip(SubSeq(s, 1, Len(s) - 1)) ELSE s

\* str.strip()
Strip(s) == RStrip(LStrip(s))

\* `not key` for an Optional[str]: None and "" are falsy
Falsy(key) == key = None \/ key[1] = <<>>

\* `key or ""`
OrEmpty(key) == IF Falsy(key) THEN <<>> ELSE key[1]

\* _k(user_id, key): the storage key
K(user_id, key) ==
    IF Falsy(key)
    THEN Str(user_id)
    ELSE Str(user_id) \o <<":">> \o Lower(Strip(key[1]))

\* the storage keys the callers of the model can produce
Keys == {K(w[1], w[2]) : w \in WalletArgs}

\* ------------------------------------------------------------------ maps
EmptyMap == [k \in {} |-> 0]

\* data.get(k, 0)
Get_or_one(d, k) == IF k \in DOMAIN d THEN d[k] ELSE 1

Get(d, k) == IF k \in DOMAIN d THEN d[k] ELSE 0

\* data[k] = v
Put_setdefault(d, k, v) ==
    [x \in (DOMAIN d) \cup {k} |-> IF x \in DOMAIN d THEN d[x] ELSE v]

Put(d, k, v) == [x \in (DOMAIN d) \cup {k} |-> IF x = k THEN v ELSE d[x]]

\* data.pop(k) (the map that is left)
Pop(d, k) == [x \in (DOMAIN d) \ {k} |-> d[x]]

\* ------------------------------------------------------- the backing file
\* balances.json: missing, unparseable text, JSON that is not an object, or
\* an object; an object has the entries whose value int() accepts (data)
\* and the keys whose value int() rejects (bad).
Missing == [kind |-> "missing", data |-> EmptyMap, bad |-> {}]
Garbage == [kind |-> "garbage", data |-> EmptyMap, bad |-> {}]
NonObject == [kind |-> "nonobj", data |-> EmptyMap, bad |-> {}]
\* a file holding the entries d that open() cannot read (OSError)
Unreadable(d) == [kind |-> "unreadable", data |-> d, bad |-> {}]
Obj(d) == [kind |-> "obj", data |-> d, bad |-> {}]
ObjBad(d, b) == [kind |-> "obj", data |-> d, bad |-> b]

\* the result of a call: normal (exc = FALSE) with a value, or an exception
Ok(v) == [exc |-> FALSE, val |-> v]
Raised == [exc |-> TRUE, val |-> EmptyMap]

\* _load(): the map read from the file, or the exception that escapes
Load_through_errors(f) ==
    CASE f.kind = "missing" -> Ok(EmptyMap)
      [] f.kind = "nonobj" -> Raised
      [] OTHER -> Ok(f.data)

Load(f) ==
    CASE f.kind = "missing" -> Ok(EmptyMap)
      [] f.kind = "garbage" -> Ok(EmptyMap)
      [] f.kind = "unreadable" -> Ok(EmptyMap)
      [] f.kind = "nonobj" -> Raised
      [] OTHER -> Ok(f.data)

\* the balance a load of the file shows for a storage key
Bal(f, k) == IF f.kind = "obj" THEN Get(f.data, k) ELSE 0

\* --------------------------------------------------------------- state
VARIABLES
    file,   \* content of DB_FILE (balances.json)
    tmp,    \* per thread: the NamedTemporaryFile of its current save
    lock,   \* holder of _lock, or NoThread
    pc,     \* per thread: position in the operation it runs
    frame,  \* per thread: the operation and its local variables
    data,   \* per thread: the local `data` dict
    ret,    \* per thread: the value the operation is about to return
    linkfile,   \* content of links.DB_FILE (character_links.json)
    linklock,   \* holder of links._lock, or NoThread
    shopfile,   \* content of SHOPS_FILE (shops.json)
    pending,    \* content of PENDING_FILE (pending_receipts.json)
    posted,     \* the receipts sent to vault threads
    today,      \* the UTC date, as a day number
    now,        \* time.time(), in seconds
    last_earn_at    \* the dict last_earn_at of bot.py

\* the state outside the balance ledger
outside ==
    <<linkfile, linklock, shopfile, pending, posted, today, now, last_earn_at>>

vars == <<file, tmp, lock, pc, frame, data, ret, outside>>

NoFrame == [name |-> "none", kk |-> <<>>, rk |-> <<>>, amt |-> 0, cur |-> 0]
Frame(name, kk, rk, amt, cur) ==
    [name |-> name, kk |-> kk, rk |-> rk, amt |-> amt, cur |-> cur]

RetNone == [kind |-> "none", val |-> 0]
RetVoid == [kind |-> "void", val |-> 0]
RetRaise == [kind |-> "raise", val |-> 0]
RetBool(b) == [kind |-> "bool", val |-> b]
RetMoney(v) == [kind |-> "money", val |-> v]
RetList(l) == [kind |-> "list", val |-> l]
RetDict(d) == [kind |-> "dict", val |-> d]

\* a fresh installation: no JSON file exists before its first save, nothing
\* was posted, and the clock shows day 1
InitOutside ==
    /\ linkfile = Missing
    /\ linklock = NoThread
    /\ shopfile = Missing
    /\ pending = Missing
    /\ posted = {}
    /\ today = 1
    /\ now = EARN_COOLDOWN_SECONDS
    /\ last_earn_at = EmptyMap

Init ==
    /\ InitOutside
    /\ file = Missing
    /\ tmp = [t \in Threads |-> Missing]
    /\ lock = NoThread
    /\ pc = [t \in Threads |-> "idle"]
    /\ frame = [t \in Threads |-> NoFrame]
    /\ data = [t \in Threads |-> EmptyMap]
    /\ ret = [t \in Threads |-> RetNone]

\* ---------------------------------------------------------------- _lock
\* threading.Lock.acquire(): blocks until no thread holds the lock
CanAcquire_always(l) == TRUE

CanAcquire(l) == l = NoThread

\* A call that returns before it takes the lock touches neither the lock nor
\* the file, so its two steps commute with every step of the other threads:
\* the model runs such a call between the operations of the other threads
\* and lets it return before any other thread moves.
At(t, where) == pc[t] = where /\ \A u \in Threads : pc[u] # "return"

EarlyReturn(t) == \A u \in Threads : pc[u] = "idle"

\* `with _lock:` entered by an idle thread
Enter(t) ==
    /\ At(t, "idle")
    /\ CanAcquire(lock)
    /\ lock' = t

\* the thread goes on inside the with-block
Goto(t, where, f, d, r) ==
    /\ pc' = [pc EXCEPT ![t] = where]
    /\ frame' = [frame EXCEPT ![t] = f]
    /\ data' = [data EXCEPT ![t] = d]
    /\ ret' = [ret EXCEPT ![t] = r]

\* an exception escapes _load(): the with-block releases the lock on exit
LoadRaises(t, name, kk) ==
    Goto(t, "release", Frame(name, kk, <<>>, 0, 0), EmptyMap, RetRaise)

\* ------------------------------------------------- mutating operations
\* Each operation action is the call up to its first _save() or return: the
\* early-return guard, the storage key, the lock, _load() and the update of
\* the local dict.  A thread waiting for the lock is a thread that has not
\* made the step yet.

\* set_balance(user_id, amount, key)
set_balance(t, user_id, amount, key) ==
    LET kk == K(user_id, key)
        r == Load(file)
    IN  /\ Enter(t)
        /\ IF r.exc
           THEN LoadRaises(t, "set_balance", kk)
           ELSE Goto(t, "open", Frame("set_balance", kk, <<>>, amount, 0),
                     Put(r.val, kk, amount), RetVoid)
        /\ UNCHANGED <<file, tmp, outside>>

\* `if amount.knuts == 0: return`
ZeroAmount_never(amount) == FALSE

ZeroAmount(amount) == amount = 0

\* add_balance(user_id, amount, key); on the early return kk stands for the
\* arguments (user_id, key)
add_balance(t, user_id, amount, key) ==
    LET kk == K(user_id, key)
        r == Load(file)
        cur == Get(r.val, kk)
    IN  IF ZeroAmount(amount)
        THEN /\ EarlyReturn(t)
             /\ Goto(t, "return", Frame("add_balance", kk, <<>>, amount, 0),
                     EmptyMap, RetVoid)
             /\ UNCHANGED <<file, tmp, lock, outside>>
        ELSE /\ Enter(t)
             /\ IF r.exc
                THEN LoadRaises(t, "add_balance", kk)
                ELSE /\ InRange(cur + amount)
                     /\ Goto(t, "open",
                             Frame("add_balance", kk, <<>>, amount, cur),
                             Put(r.val, kk, cur + amount), RetVoid)
             /\ UNCHANGED <<file, tmp, outside>>

\* `if cur < need` / `if s_cur < amt`
Insufficient_never(cur, need) == FALSE

Insufficient_loose(cur, need) == cur + 1 < need

Insufficient(cur, need) == cur < need

\* subtract_if_enough(user_id, price, key); on the early return kk stands
\* for the arguments (user_id, key)
subtract_if_enough(t, user_id, price, key) ==
    LET need == price
        kk == K(user_id, key)
        r == Load(file)
        cur == Get(r.val, kk)
    IN  IF need <= 0
        THEN /\ EarlyReturn(t)
             /\ Goto(t, "return",
                     Frame("subtract_if_enough", kk, <<>>, need, 0),
                     EmptyMap, RetBool(TRUE))
             /\ UNCHANGED <<file, tmp, lock, outside>>
        ELSE /\ Enter(t)
             /\ IF r.exc
                THEN LoadRaises(t, "subtract_if_enough", kk)
                ELSE IF Insufficient(cur, need)
                THEN Goto(t, "release",
                          Frame("subtract_if_enough", kk, <<>>, need, cur),
                          r.val, RetBool(FALSE))
                ELSE /\ InRange(cur - need)
                     /\ Goto(t, "open",
                             Frame("subtract_if_enough", kk, <<>>, need, cur),
                             Put(r.val, kk, cur - need), RetBool(TRUE))
             /\ UNCHANGED <<file, tmp, outside>>

\* the self-transfer test of transfer():
\* sender_id == receiver_id and (from_key or "") == (to_key or "")
SameWallet(sender_id, receiver_id, from_key, to_key) ==
    sender_id = receiver_id /\ OrEmpty(from_key) = OrEmpty(to_key)

\* data[s_key] = s_cur - amt; data[r_key] = int(data.get(r_key, 0)) + amt
TransferUpdate_debit_only(d, s_key, r_key, s_cur, amt) ==
    Put(d, s_key, s_cur - amt)

TransferUpdate(d, s_key, r_key, s_cur, amt) ==
    LET d1 == Put(d, s_key, s_cur - amt)
    IN  Put(d1, r_key, Get(d1, r_key) + amt)

\* transfer(sender_id, receiver_id, amount, from_key, to_key); on the
\* early return s_key and r_key stand for the arguments
transfer(t, sender_id, receiver_id, amount, from_key, to_key) ==
    LET amt == amount
        s_key == K(sender_id, from_key)
        r_key == K(receiver_id, to_key)
        r == Load(file)
        s_cur == Get(r.val, s_key)
        new == TransferUpdate(r.val, s_key, r_key, s_cur, amt)
    IN  IF amt <= 0 \/ SameWallet(sender_id, receiver_id, from_key, to_key)
        THEN /\ EarlyReturn(t)
             /\ Goto(t, "return", Frame("transfer", s_key, r_key, amt, 0),
                     EmptyMap, RetBool(FALSE))
             /\ UNCHANGED <<file, tmp, lock, outside>>
        ELSE /\ Enter(t)
             /\ IF r.exc
                THEN Goto(t, "release", Frame("transfer", s_key, r_key, amt, 0),
                          EmptyMap, RetRaise)
                ELSE IF Insufficient(s_cur, amt)
                THEN Goto(t, "release",
                          Frame("transfer", s_key, r_key, amt, s_cur),
                          r.val, RetBool(FALSE))
                ELSE /\ \A k \in DOMAIN new : InRange(new[k])
                     /\ Goto(t, "open",
                             Frame("transfer", s_key, r_key, amt, s_cur),
                             new, RetBool(TRUE))
             /\ UNCHANGED <<file, tmp, outside>>

\* data[newk] = data.pop(oldk)
RenameUpdate_copy(d, oldk, newk) == Put(d, newk, d[oldk])

RenameUpdate(d, oldk, newk) == Put(Pop(d, oldk), newk, d[oldk])

\* rename_character_key(user_id, old_key, new_key)
rename_character_key(t, user_id, old_key, new_key) ==
    LET oldk == K(user_id, old_key)
        newk == K(user_id, new_key)
        r == Load(file)
    IN  /\ Enter(t)
        /\ IF r.exc
           THEN Goto(t, "release",
                     Frame("rename_character_key", oldk, newk, 0, 0),
                     EmptyMap, RetRaise)
           ELSE IF oldk \notin DOMAIN r.val \/ newk \in DOMAIN r.val
           THEN Goto(t, "release",
                     Frame("rename_character_key", oldk, newk, 0, 0),
                     r.val, RetBool(FALSE))
           ELSE Goto(t, "open",
                     Frame("rename_character_key", oldk, newk, 0, 0),
                     RenameUpdate(r.val, oldk, newk), RetBool(TRUE))
        /\ UNCHANGED <<file, tmp, outside>>

\* -------------------------------------------------------- _atomic_write
\* _save(data) = _atomic_write(data): create a temporary file next to
\* DB_FILE, json.dump into it, close it, os.replace it over DB_FILE.  A file
\* that is being written holds a prefix of the JSON text, which does not
\* parse (Garbage).

\* tempfile.NamedTemporaryFile("w", delete=False, dir=dir_): what the
\* destination and the temporary file hold once the file is open
CreateTemp_in_place(f) == [file |-> Garbage, tmp |-> Missing]

CreateTemp(f) == [file |-> f, tmp |-> Garbage]

\* json.dump(data, tmp, indent=2) and the close of the with-block
Dumped(d) == Obj(d)

\* what the caller of _atomic_write gets when the except branch ran: the
\* exception is logged and swallowed, the pending result stands
AfterSaveError_propagate(r) == RetRaise

AfterSaveError(r) == r

OpenTemp(t) ==
    /\ At(t, "open")
    /\ file' = CreateTemp(file).file
    /\ tmp' = [tmp EXCEPT ![t] = CreateTemp(file).tmp]
    /\ pc' = [pc EXCEPT ![t] = "dump"]
    /\ UNCHANGED <<lock, frame, data, ret, outside>>

Dump(t) ==
    /\ At(t, "dump")
    /\ tmp' = [tmp EXCEPT ![t] = Dumped(data[t])]
    /\ pc' = [pc EXCEPT ![t] = "replace"]
    /\ UNCHANGED <<file, lock, frame, data, ret, outside>>

\* os.replace(tmp_path, DB_FILE)
Replace(t) ==
    /\ At(t, "replace")
    /\ file' = tmp[t]
    /\ tmp' = [tmp EXCEPT ![t] = Missing]
    /\ pc' = [pc EXCEPT ![t] = "release"]
    /\ UNCHANGED <<lock, frame, data, ret, outside>>

\* NamedTemporaryFile raises (no file was created)
OpenFails(t) ==
    /\ At(t, "open")
    /\ pc' = [pc EXCEPT ![t] = "release"]
    /\ ret' = [ret EXCEPT ![t] = AfterSaveError(ret[t])]
    /\ UNCHANGED <<file, tmp, lock, frame, data, outside>>

\* json.dump raises: tmp_path is not bound yet, so the except branch leaves
\* the partial file behind; or the close raises after tmp_path was bound and
\* the except branch removes the file
DumpFails(t) ==
    /\ At(t, "dump")
    /\ \E left \in {Garbage, Missing} : tmp' = [tmp EXCEPT ![t] = left]
    /\ pc' = [pc EXCEPT ![t] = "release"]
    /\ ret' = [ret EXCEPT ![t] = AfterSaveError(ret[t])]
    /\ UNCHANGED <<file, lock, frame, data, outside>>

\* os.replace raises: the except branch removes the temporary file
ReplaceFails(t) ==
    /\ At(t, "replace")
    /\ tmp' = [tmp EXCEPT ![t] = Missing]
    /\ pc' = [pc EXCEPT ![t] = "release"]
    /\ ret' = [ret EXCEPT ![t] = AfterSaveError(ret[t])]
    /\ UNCHANGED <<file, lock, frame, data, outside>>

\* the with-block ends (normally or by an exception): the lock is released
\* and the call returns to its caller; a temporary file that a failed save
\* left behind has a name no later save uses and is no longer tracked
Release(t) ==
    /\ At(t, "release")
    /\ lock' = NoThread
    /\ Goto(t, "idle", NoFrame, EmptyMap, RetNone)
    /\ tmp' = [tmp EXCEPT ![t] = Missing]
    /\ UNCHANGED <<file, outside>>

\* a call that returned before taking the lock is back at its caller
Return(t) ==
    /\ pc[t] = "return"
    /\ Goto(t, "idle", NoFrame, EmptyMap, RetNone)
    /\ UNCHANGED <<file, tmp, lock, outside>>

\* ----------------------------------------------------- reading operations
\* The readers load under the lock and compute on their copy after the
\* with-block; the computation on the local copy is folded into the load step.

Max(a, b) == IF a >= b THEN a ELSE b
Min(a, b) == IF a <= b THEN a ELSE b

\* s.startswith(p)
StartsWith(s, p) == Len(s) >= Len(p) /\ SubSeq(s, 1, Len(p)) = p

\* ":" in k
HasColon(k) == \E i \in DOMAIN k : k[i] = ":"

\* index of the first ":" of k
FirstColon(k) == CHOOSE i \in DOMAIN k : k[i] = ":" /\ \A j \in 1..(i - 1) : k[j] # ":"

\* k.split(":", 1)[0]
UidStr(k) == IF HasColon(k) THEN SubSeq(k, 1, FirstColon(k) - 1) ELSE k

\* k.split(":", 1)[1]
CharKey(k) == SubSeq(k, FirstColon(k) + 1, Len(k))

IsDigit(ch) == \E i \in DOMAIN Digits : Digits[i] = ch
DigitVal(ch) == (CHOOSE i \in DOMAIN Digits : Digits[i] = ch) - 1

\* int(uid_str) succeeds (on the strings of the model: decimal digits)
IntParses(s) == s # <<>> /\ \A i \in DOMAIN s : IsDigit(s[i])

RECURSIVE IntOf(_)
IntOf(s) ==
    IF s = <<>> THEN 0
    ELSE 10 * IntOf(SubSeq(s, 1, Len(s) - 1)) + DigitVal(s[Len(s)])

RECURSIVE SumOver(_, _)
SumOver(d, S) ==
    IF S = {} THEN 0
    ELSE LET k == CHOOSE x \in S : TRUE IN d[k] + SumOver(d, S \ {k})

\* the keys user_total adds up
OwnedKeys(d, user_id) ==
    {k \in DOMAIN d : k = Str(user_id) \/ StartsWith(k, Str(user_id) \o <<":">>)}

\* the orders of the set S of tuples that sorted(..., reverse=True) can give
\* with component c as the key: the sort is stable, so equal keys keep the
\* dict's insertion order, which the map of the model does not record; any
\* order of equal keys is allowed
Rankings_unsorted(S, c) ==
    {q \in [1..Cardinality(S) -> S] : \A x \in S : \E i \in DOMAIN q : q[i] = x}

Rankings(S, c) ==
    {q \in [1..Cardinality(S) -> S] :
        /\ \A x \in S : \E i \in DOMAIN q : q[i] = x
        /\ \A i, j \in DOMAIN q : i < j => q[i][c] >= q[j][c]}

\* ranked[:m]
Take(q, m) == SubSeq(q, 1, Min(m, Len(q)))

\* a reader with its result
Reads(t, name, kk, n, d, r) ==
    Goto(t, "release", Frame(name, kk, <<>>, n, 0), d, r)

\* get_balance(user_id, key)
get_balance(t, user_id, key) ==
    LET kk == K(user_id, key)
        r == Load(file)
    IN  /\ Enter(t)
        /\ IF r.exc
           THEN LoadRaises(t, "get_balance", kk)
           ELSE Reads(t, "get_balance", kk, 0, r.val, RetMoney(Get(r.val, kk)))
        /\ UNCHANGED <<file, tmp, outside>>

\* user_total(user_id)
user_total(t, user_id) ==
    LET r == Load(file)
    IN  /\ Enter(t)
        /\ IF r.exc
           THEN LoadRaises(t, "user_total", Str(user_id))
           ELSE Reads(t, "user_total", Str(user_id), 0, r.val,
                      RetMoney(SumOver(r.val, OwnedKeys(r.val, user_id))))
        /\ UNCHANGED <<file, tmp, outside>>

\* character_balances(user_id)
character_balances(t, user_id) ==
    LET r == Load(file)
        prefix == Str(user_id) \o <<":">>
        mine == {k \in DOMAIN r.val : StartsWith(k, prefix)}
        out == [c \in {SubSeq(k, Len(prefix) + 1, Len(k)) : k \in mine}
                    |-> r.val[prefix \o c]]
    IN  /\ Enter(t)
        /\ IF r.exc
           THEN LoadRaises(t, "character_balances", Str(user_id))
           ELSE Reads(t, "character_balances", Str(user_id), 0, r.val,
                      RetDict(out))
        /\ UNCHANGED <<file, tmp, outside>>

\* the totals dict of top_users as a set of <<uid, total>> pairs
UserTotals(d) ==
    LET uids == {IntOf(UidStr(k)) : k \in DOMAIN d}
    IN  {<<u, SumOver(d, {k \in DOMAIN d : IntOf(UidStr(k)) = u})>> : u \in uids}

\* top_users(n)
top_users(t, n) ==
    LET r == Load(file)
    IN  /\ Enter(t)
        /\ IF r.exc
           THEN LoadRaises(t, "top_users", <<>>)
           ELSE IF \E k \in DOMAIN r.val : ~IntParses(UidStr(k))
           THEN Reads(t, "top_users", <<>>, n, r.val, RetRaise)
           ELSE \E q \in Rankings(UserTotals(r.val), 2) :
                    Reads(t, "top_users", <<>>, n, r.val,
                          RetList(Take(q, Max(1, n))))
        /\ UNCHANGED <<file, tmp, outside>>

\* the out list of top_characters as a set of <<uid, char_key, knuts>>
CharEntries(d) ==
    {<<IntOf(UidStr(k)), CharKey(k), d[k]>> : k \in {x \in DOMAIN d : HasColon(x)}}

\* top_characters(n)
top_characters(t, n) ==
    LET r == Load(file)
    IN  /\ Enter(t)
        /\ IF r.exc
           THEN LoadRaises(t, "top_characters", <<>>)
           ELSE IF \E k \in DOMAIN r.val : HasColon(k) /\ ~IntParses(UidStr(k))
           THEN Reads(t, "top_characters", <<>>, n, r.val, RetRaise)
           ELSE \E q \in Rankings(CharEntries(r.val), 3) :
                    Reads(t, "top_characters", <<>>, n, r.val,
                          RetList(Take(q, Max(1, n))))
        /\ UNCHANGED <<file, tmp, outside>>

\* ------------------------------------------------------- specifications
Next ==
    \E t \in Threads :
        \/ \E w \in WalletArgs : get_balance(t, w[1], w[2])
        \/ \E w \in WalletArgs, a \in Amounts : set_balance(t, w[1], a, w[2])
        \/ \E w \in WalletArgs, a \in Amounts : add_balance(t, w[1], a, w[2])
        \/ \E w \in WalletArgs, a \in Amounts :
                subtract_if_enough(t, w[1], a, w[2])
        \/ \E s \in WalletArgs, r \in WalletArgs, a \in Amounts :
                transfer(t, s[1], r[1], a, s[2], r[2])
        \/ \E w \in RenameArgs :
                rename_character_key(t, w[1], Some(w[2]), Some(w[3]))
        \/ \E u \in Users : user_total(t, u)
        \/ \E u \in Users : character_balances(t, u)
        \/ \E n \in TopNs : top_users(t, n)
        \/ \E n \in TopNs : top_characters(t, n)
        \/ OpenTemp(t)
        \/ Dump(t)
        \/ Replace(t)
        \/ Release(t)
        \/ Return(t)

Spec == Init /\ [][Next]_vars

\* A balances.json that was not written by the program: unparseable text, JSON that is not an object, an
\* object with a value int() rejects ("1:c": null), an object with a key
\* whose owner part is not a number ("x:c": 1).
DamagedFiles ==
    {Garbage,
     NonObject,
     ObjBad([k \in {<<"1">>} |-> 1], {<<"1", ":", "c">>}),
     Obj([k \in {<<"x", ":", "c">>, <<"2">>} |-> 1])}

InitIO ==
    /\ InitOutside
    /\ file \in DamagedFiles \cup {Missing}
    /\ tmp = [t \in Threads |-> Missing]
    /\ lock = NoThread
    /\ pc = [t \in Threads |-> "idle"]
    /\ frame = [t \in Threads |-> NoFrame]
    /\ data = [t \in Threads |-> EmptyMap]
    /\ ret = [t \in Threads |-> RetNone]

SaveFails(t) == OpenFails(t) \/ DumpFails(t) \/ ReplaceFails(t)

NextIO ==
    \/ Next
    \/ \E t \in Threads : OpenFails(t)
    \/ \E t \in Threads : DumpFails(t)
    \/ \E t \in Threads : ReplaceFails(t)

\* files whose load fails inside _load's try: unparseable text, and valid
\* entries behind a read error
UnloadableFiles ==
    {Garbage, Unreadable([k \in {<<"1">>, <<"2">>} |-> 1])}

InitLoad ==
    /\ InitOutside
    /\ file \in UnloadableFiles
    /\ tmp = [t \in Threads |-> Missing]
    /\ lock = NoThread
    /\ pc = [t \in Threads |-> "idle"]
    /\ frame = [t \in Threads |-> NoFrame]
    /\ data = [t \in Threads |-> EmptyMap]
    /\ ret = [t \in Threads |-> RetNone]

\* the ledger started on a file it cannot load
SpecLoad == InitLoad /\ [][Next]_vars

\* the ledger on a disk whose writes can fail
SpecDisk == Init /\ [][NextIO]_vars

\* the same with a balances.json the program did not write
SpecIO == InitIO /\ [][NextIO]_vars

\* ---------------------------------------------------- the leaderboards
\* The leaderboard readers on a store that earlier calls have written: the
\* entries {"5": 100, "5:cat": 50, "6": 10}, or any entries under the
\* storage keys of the callers.
ExampleEntries ==
    [k \in {<<"5">>, <<"5", ":", "c", "a", "t">>, <<"6">>} |->
        CASE k = <<"5">> -> 100
          [] k = <<"6">> -> 10
          [] OTHER -> 50]

BoardFiles ==
    {Obj(ExampleEntries)} \cup
    UNION {{Obj(d) : d \in [S -> (-1)..MaxBal]} : S \in SUBSET Keys}

\* the user ids user_total is asked about
BoardUsers == {1, 2, 5, 6}

InitBoard ==
    /\ InitOutside
    /\ file \in BoardFiles
    /\ tmp = [t \in Threads |-> Missing]
    /\ lock = NoThread
    /\ pc = [t \in Threads |-> "idle"]
    /\ frame = [t \in Threads |-> NoFrame]
    /\ data = [t \in Threads |-> EmptyMap]
    /\ ret = [t \in Threads |-> RetNone]

NextBoard ==
    \E t \in Threads :
        \/ \E n \in TopNs : top_users(t, n)
        \/ \E u \in BoardUsers : user_total(t, u)
        \/ Release(t)

SpecBoard == InitBoard /\ [][NextBoard]_vars

\* ------------------------------------------------------------ currency
\* Money (src/currency.py) is its integer `knuts` field.  A thread that
\* computes on Money values uses no lock and no file; the calls of the
\* threads do not interact and the model runs them one at a time.
MaxKnuts == 1000

\* the n of from_knuts(n)
KnutAmounts == (-MaxKnuts)..MaxKnuts

KNUTS_PER_SICKLE == 29
SICKLES_PER_GALLEON == 17
KNUTS_PER_GALLEON == SICKLES_PER_GALLEON * KNUTS_PER_SICKLE

\* Money.from_gsk(galleons, sickles, knuts)
from_gsk(galleons, sickles, knuts) ==
    galleons * KNUTS_PER_GALLEON + sickles * KNUTS_PER_SICKLE + knuts

\* Money.from_knuts(n)
from_knuts(n) == n

\* Money.to_gsk(): two divmod steps; Python's divmod floors, as \div and %
\* do for a positive divisor
to_gsk_truncating(m) ==
    IF m >= 0
    THEN <<m \div KNUTS_PER_GALLEON,
           (m % KNUTS_PER_GALLEON) \div KNUTS_PER_SICKLE,
           (m % KNUTS_PER_GALLEON) % KNUTS_PER_SICKLE>>
    ELSE <<-((-m) \div KNUTS_PER_GALLEON),
           -(((-m) % KNUTS_PER_GALLEON) \div KNUTS_PER_SICKLE),
           -(((-m) % KNUTS_PER_GALLEON) % KNUTS_PER_SICKLE)>>

to_gsk(m) ==
    LET g == m \div KNUTS_PER_GALLEON
        remainder == m % KNUTS_PER_GALLEON
        s == remainder \div KNUTS_PER_SICKLE
        k == remainder % KNUTS_PER_SICKLE
    IN  <<g, s, k>>

\* a thread evaluates Money.from_knuts(n).to_gsk()
CallToGsk(t, n) ==
    /\ EarlyReturn(t)
    /\ Goto(t, "return", Frame("to_gsk", <<>>, <<>>, n, 0), EmptyMap,
            RetList(to_gsk(from_knuts(n))))
    /\ UNCHANGED <<file, tmp, lock, outside>>

\* and passes the tuple it got to Money.from_gsk
CallFromGsk(t) ==
    /\ pc[t] = "return"
    /\ frame[t].name = "to_gsk"
    /\ Goto(t, "return", [frame[t] EXCEPT !.name = "from_gsk"], EmptyMap,
            RetMoney(from_gsk(ret[t].val[1], ret[t].val[2], ret[t].val[3])))
    /\ UNCHANGED <<file, tmp, lock, outside>>

NextMoney ==
    \E t \in Threads :
        \/ EarlyReturn(t) /\ \E n \in KnutAmounts : CallToGsk(t, n)
        \/ CallFromGsk(t)
        \/ Return(t)

SpecMoney == Init /\ [][NextMoney]_vars

\* ------------------------------------------------------ Money.from_str
\* The text is a sequence of characters; None stands for an argument that is
\* not a str.
MaxText == 4

\* one character of each class the two regular expressions tell apart: a
\* digit, the comma, a sign, white space, a unit letter, another letter
TextAlphabet == {"1", ",", "-", " ", "g", "x"}

\* the inputs of the docstring and of the spec's examples
ExampleTexts ==
    {<<"3", "g", " ", "2", "s", " ", "1", "0", "k">>,
     <<"2", " ", "G", "a", "l", "l", "e", "o", "n", "s", " ",
       "5", " ", "s", "i", "c", "k", "l", "e", "s">>,
     <<"1", "5", "S">>,
     <<"5", "0", "0">>,
     <<"-", "2", "g">>,
     <<"1", ",", "0", "0", "0">>,
     <<"1", ",", "0", "0", "0", "k">>,
     <<"+", "3", "s">>,
     <<"2", " ", "g", "a", "l", " ", "1", " ", "K", "n", "u", "t">>,
     <<"3", " ", "g", "a", "l", "l", "o", "n", "s">>,
     <<"a", "n", "d", " ", "3", " ", "k", "n", "u", "t", "s", "!">>}

Texts ==
    {None} \cup {Some(s) : s \in ExampleTexts}
           \cup {Some(s) : s \in UNION {[1..n -> TextAlphabet] : n \in 0..MaxText}}

Letters ==
    {"a", "b", "c", "d", "e", "g", "i", "k", "l", "n", "o", "s", "t", "u", "x"}

IsSign(ch) == ch = "+" \/ ch = "-"

\* \s
IsSpace(ch) == ch = " "

\* \w
IsWordChar(ch) == IsDigit(ch) \/ ch \in Letters \/ ch = "_"

\* \b after a unit, whose last character is a letter: the end of the text
\* or a character that is not a word character
Boundary_none(t, q) == TRUE

Boundary(t, q) == q > Len(t) \/ ~IsWordChar(t[q])

\* the first position from q on that does not hold a digit or a comma
RECURSIVE DigitsEnd(_, _)
DigitsEnd(t, q) ==
    IF q <= Len(t) /\ (IsDigit(t[q]) \/ t[q] = ",") THEN DigitsEnd(t, q + 1) ELSE q

\* [+-]?\d[\d,]* tried at p: the position after the match, 0 for no match
NumEnd(t, p) ==
    LET q == IF IsSign(t[p]) THEN p + 1 ELSE p
    IN  IF q <= Len(t) /\ IsDigit(t[q]) THEN DigitsEnd(t, q + 1) ELSE 0

\* \s* from q on
RECURSIVE SpacesEnd(_, _)
SpacesEnd(t, q) ==
    IF q <= Len(t) /\ IsSpace(t[q]) THEN SpacesEnd(t, q + 1) ELSE q

\* the spellings of the unit group in the order the pattern tries them
UnitSpellings ==
    <<(<<"g", "a", "l", "l", "e", "o", "n", "s">>),
      (<<"g", "a", "l", "l", "e", "o", "n">>),
      (<<"g", "a", "l">>),
      (<<"g">>),
      (<<"s", "i", "c", "k", "l", "e", "s">>),
      (<<"s", "i", "c", "k", "l", "e">>),
      (<<"s">>),
      (<<"k", "n", "u", "t", "s">>),
      (<<"k", "n", "u", "t">>),
      (<<"k">>)>>

\* the unit group followed by \b tried at u: the spelling matched, <<>> for
\* no match
UnitAt(t, u) ==
    LET fits(i) ==
            LET w == UnitSpellings[i]
            IN  /\ u + Len(w) - 1 <= Len(t)
                /\ SubSeq(t, u, u + Len(w) - 1) = w
                /\ Boundary(t, u + Len(w))
        hits == {i \in DOMAIN UnitSpellings : fits(i)}
    IN  IF hits = {} THEN <<>>
        ELSE UnitSpellings[CHOOSE i \in hits : \A j \in hits : i <= j]

\* int(num_txt.replace(",", ""))
IntOfNum(num_txt) ==
    LET IsDig(ch) == IsDigit(ch)
        body == SelectSeq(num_txt, IsDig)
    IN  IF num_txt[1] = "-" THEN -IntOf(body) ELSE IntOf(body)

\* token_re tried at p: [ok, stop (the position after the match), num, unit]
TokenAt(t, p) ==
    LET e == NumEnd(t, p)
        u == SpacesEnd(t, e)
        w == IF e = 0 THEN <<>> ELSE UnitAt(t, u)
    IN  IF e = 0 \/ w = <<>>
        THEN [ok |-> FALSE, stop |-> p, num |-> 0, unit |-> <<>>]
        ELSE [ok |-> TRUE, stop |-> u + Len(w),
              num |-> IntOfNum(SubSeq(t, p, e - 1)), unit |-> w]

\* the loop over token_re.finditer(t) from position p on: the counters
\* g, s, k and the positions of consumed_spans
RECURSIVE Tokens(_, _, _)
Tokens(t, p, acc) ==
    IF p > Len(t) THEN acc
    ELSE LET m == TokenAt(t, p)
         IN  IF ~m.ok THEN Tokens(t, p + 1, acc)
             ELSE Tokens(t, m.stop,
                    [g |-> acc.g + (IF m.unit[1] = "g" THEN m.num ELSE 0),
                     s |-> acc.s + (IF m.unit[1] = "s" THEN m.num ELSE 0),
                     k |-> acc.k + (IF m.unit[1] = "k" THEN m.num ELSE 0),
                     spans |-> acc.spans \cup (p..(m.stop - 1))])

\* the sum over re.findall(r'[+-]?\d[\d,]*', cleaned) from position p on
RECURSIVE LeftoverKnuts(_, _)
LeftoverKnuts(cleaned, p) ==
    IF p > Len(cleaned) THEN 0
    ELSE LET e == NumEnd(cleaned, p)
         IN  IF e = 0 THEN LeftoverKnuts(cleaned, p + 1)
             ELSE IntOfNum(SubSeq(cleaned, p, e - 1)) + LeftoverKnuts(cleaned, e)

\* Money.from_str(text)
from_str(text) ==
    IF text = None \/ Strip(text[1]) = <<>>
    THEN 0
    ELSE LET t == Lower(text[1])
             acc == Tokens(t, 1, [g |-> 0, s |-> 0, k |-> 0, spans |-> {}])
             cleaned == [i \in DOMAIN t |-> IF i \in acc.spans THEN " " ELSE t[i]]
         IN  from_gsk(acc.g, acc.s, acc.k + LeftoverKnuts(cleaned, 1))

\* a thread evaluates Money.from_str(text); kk holds the text
CallFromStr(t, text) ==
    /\ EarlyReturn(t)
    /\ Goto(t, "return", Frame("from_str", text, <<>>, 0, 0), EmptyMap,
            RetMoney(from_str(text)))
    /\ UNCHANGED <<file, tmp, lock, outside>>

NextParse ==
    \E t \in Threads :
        \/ EarlyReturn(t) /\ \E text \in Texts : CallFromStr(t, text)
        \/ Return(t)

SpecParse == Init /\ [][NextParse]_vars

\* ------------------------------------------------------ character links
\* src/links.py: character_links.json maps the stored key of a character
\* name to a user id.  The names of the model are ASCII text, which NFKC and
\* the removal of variation selectors, joiners, combining marks and emoji
\* leave as it is; whitespace is the space character.
LinkNames ==
    {<<"B", "o", "b">>,
     <<"b", "o", "b", " ">>,
     <<"(", "B", "o", "b", ")">>,
     <<"B", "o", "b", " ", "(", "a", ")">>,
     <<"B", "|", "b">>,
     <<"b", " ", "-", " ", "a">>,
     <<"b", ".", "a">>,
     <<"!">>}

\* _nfkc_lower(s)
nfkc_lower(s) == Strip(Lower(s))

RECURSIVE Squeeze(_)
Squeeze(s) ==
    IF Len(s) < 2 THEN s
    ELSE IF IsSpace(s[1]) /\ IsSpace(s[2]) THEN Squeeze(Tail(s))
    ELSE <<s[1]>> \o Squeeze(Tail(s))

\* re.sub(r"\s+", " ", s).strip()
Collapse(s) == Strip(Squeeze(s))

OpenBrackets == {"(", "[", "{"}
CloseBrackets == {")", "]", "}"}

\* _BRACKETS_RE.sub("", s): the match starts at the whitespace before the
\* leftmost opening bracket and runs to the end, when the text ends with a
\* closing bracket and optional whitespace
BracketsSub(s) ==
    LET r == RStrip(s)
        opens == {i \in DOMAIN r : r[i] \in OpenBrackets}
    IN  IF r # <<>> /\ r[Len(r)] \in CloseBrackets /\ opens # {}
        THEN LET i0 == CHOOSE i \in opens : \A j \in opens : i <= j
             IN  RStrip(SubSeq(s, 1, i0 - 1))
        ELSE s

\* the `while True` loop of normalize_display_name
RECURSIVE StripBrackets(_)
StripBrackets(s) ==
    LET new_s == BracketsSub(s)
    IN  IF new_s = s THEN s ELSE StripBrackets(new_s)

\* the ASCII separators of _DECOR_DELIMS, in the order of the list
DECOR_DELIMS == << <<"|">>, <<" ", "-", " ">> >>

\* s.find(d) + 1: the first position where d occurs in s, or 0
Find(s, d) ==
    LET hits == {i \in 1..(Len(s) - Len(d) + 1) :
                    SubSeq(s, i, i + Len(d) - 1) = d}
    IN  IF hits = {} THEN 0 ELSE CHOOSE i \in hits : \A j \in hits : i <= j

\* `for d in _DECOR_DELIMS: if d in s: s = s.split(d, 1)[0]`, from the i-th
\* separator on
RECURSIVE CutDelims(_, _)
CutDelims(s, i) ==
    IF i > Len(DECOR_DELIMS) THEN s
    ELSE LET at == Find(s, DECOR_DELIMS[i])
         IN  CutDelims(IF at = 0 THEN s ELSE SubSeq(s, 1, at - 1), i + 1)

\* a character of [a-z0-9\s'\-]
IsSafeChar(ch) ==
    ch \in Letters \/ IsDigit(ch) \/ IsSpace(ch) \/ ch = "'" \/ ch = "-"

\* re.sub(r"[^a-z0-9\s'\-]", " ", s)
ReplaceUnsafe(s) == [i \in DOMAIN s |-> IF IsSafeChar(s[i]) THEN s[i] ELSE " "]

\* re.sub(r"[^a-z0-9\s'\-]", "", s)
RECURSIVE DropUnsafe(_)
DropUnsafe(s) ==
    IF s = <<>> THEN s
    ELSE (IF IsSafeChar(Head(s)) THEN <<Head(s)>> ELSE <<>>)
             \o DropUnsafe(Tail(s))

normalize_display_name(name) ==
    Collapse(ReplaceUnsafe(CutDelims(StripBrackets(nfkc_lower(name)), 1)))

\* the softer normalization _normalize_or_fail falls back to
SoftName(name) == Collapse(DropUnsafe(Collapse(nfkc_lower(name))))

\* _normalize_or_fail(name) raises ValueError
NormalizeFails(name) ==
    normalize_display_name(name) = <<>> /\ SoftName(name) = <<>>

\* and the key it returns otherwise
normalize_or_fail(name) ==
    IF normalize_display_name(name) # <<>>
    THEN normalize_display_name(name)
    ELSE SoftName(name)

\* _norm_variants(name)
norm_variants(name) ==
    LET a == nfkc_lower(name)
        b == normalize_display_name(name)
    IN  IF a = b THEN <<a>> ELSE <<a, b>>

\* the loop of unlink_character: the candidates found in the table
Found(d, name) ==
    {norm_variants(name)[i] : i \in DOMAIN norm_variants(name)} \cap DOMAIN d

UnlinkUpdate(d, name) == [k \in (DOMAIN d) \ Found(d, name) |-> d[k]]

\* the loop of resolve_character on the loaded table
ResolveIn(d, name) ==
    LET a == normalize_display_name(name)
        b == nfkc_lower(name)
    IN  IF a # <<>> /\ a \in DOMAIN d THEN Some(d[a])
        ELSE IF b # <<>> /\ b \in DOMAIN d THEN Some(d[b])
        ELSE None

\* Optional[int] returned by resolve_character
RetOwner(o) == [kind |-> "owner", val |-> o]

\* `with _lock:` of links.py entered by an idle thread
LinkEnter(t) ==
    /\ At(t, "idle")
    /\ linklock = NoThread
    /\ linklock' = t

\* the call goes on under links._lock after _load(); an exception that
\* escapes _load() leaves the with-block
LinkLoaded(t, where, f, d, r) ==
    IF Load(linkfile).exc
    THEN Goto(t, "linkrelease", f, EmptyMap, RetRaise)
    ELSE Goto(t, where, f, d, r)

\* link_character(name, user_id) and link_alias(alias_name, user_id), which
\* has the same body, up to _save(data)
link_character(t, name, user_id) ==
    IF NormalizeFails(name)
    THEN /\ EarlyReturn(t)
         /\ Goto(t, "return", Frame("link_character", name, <<>>, user_id, 0),
                 EmptyMap, RetRaise)
         /\ UNCHANGED <<file, tmp, lock, outside>>
    ELSE /\ LinkEnter(t)
         /\ LinkLoaded(t, "linkdump",
                Frame("link_character", name, normalize_or_fail(name),
                      user_id, 0),
                Put(Load(linkfile).val, normalize_or_fail(name), user_id),
                RetVoid)
         /\ UNCHANGED <<file, tmp, lock, linkfile, shopfile, pending, posted,
                        today,
                        now, last_earn_at>>

\* unlink_character(name) up to _save(data) or its return
unlink_character(t, name) ==
    /\ LinkEnter(t)
    /\ LET d == Load(linkfile).val
           existed == Found(d, name) # {}
       IN  LinkLoaded(t, IF existed THEN "linkdump" ELSE "linkrelease",
               Frame("unlink_character", name, <<>>, 0, 0),
               UnlinkUpdate(d, name), RetBool(existed))
    /\ UNCHANGED <<file, tmp, lock, linkfile, shopfile, pending, posted, today,
                   now, last_earn_at>>

\* resolve_character(name): the load under the lock; the lookup on the
\* loaded table is folded into the step
resolve_character(t, name) ==
    /\ LinkEnter(t)
    /\ LET d == Load(linkfile).val
       IN  LinkLoaded(t, "linkrelease",
               Frame("resolve_character", name, <<>>, 0, 0),
               d, RetOwner(ResolveIn(d, name)))
    /\ UNCHANGED <<file, tmp, lock, linkfile, shopfile, pending, posted, today,
                   now, last_earn_at>>

\* _atomic_write: json.dump into the temporary file
LinkDump(t) ==
    /\ At(t, "linkdump")
    /\ tmp' = [tmp EXCEPT ![t] = Obj(data[t])]
    /\ pc' = [pc EXCEPT ![t] = "linkreplace"]
    /\ UNCHANGED <<file, lock, frame, data, ret, outside>>

\* _atomic_write: os.replace(tmp_path, DB_FILE)
LinkReplace(t) ==
    /\ At(t, "linkreplace")
    /\ linkfile' = tmp[t]
    /\ pc' = [pc EXCEPT ![t] = "linkrelease"]
    /\ UNCHANGED <<file, tmp, lock, frame, data, ret, linklock, shopfile,
                   pending, posted, today,
                   now, last_earn_at>>

\* the with-block of links.py ends and the call returns
LinkRelease(t) ==
    /\ At(t, "linkrelease")
    /\ linklock' = NoThread
    /\ Goto(t, "idle", NoFrame, EmptyMap, RetNone)
    /\ tmp' = [tmp EXCEPT ![t] = Missing]
    /\ UNCHANGED <<file, lock, linkfile, shopfile, pending, posted, today,
                   now, last_earn_at>>

NextLinks ==
    \E t \in Threads :
        \/ \E name \in LinkNames, u \in Users : link_character(t, name, u)
        \/ \E name \in LinkNames : unlink_character(t, name)
        \/ \E name \in LinkNames : resolve_character(t, name)
        \/ LinkDump(t)
        \/ LinkReplace(t)
        \/ LinkRelease(t)
        \/ Return(t)

SpecLinks == Init /\ [][NextLinks]_vars

\* ------------------------------------------------------- shop inventory
\* src/shop.py: shops.json holds town -> shop -> "items" -> item ->
\* {"price_knuts", "qty"}.  The calls of the model address one shop of one
\* town; the map of the model is the "items" dict of that shop, and qty is
\* None (unlimited) or Some(n).  shop.py holds no lock.
MaxStock == 2

\* the item the calls of the model address
ShopItems == {<<"w">>}
ShopPrices == {1, 2}
\* the qty argument of set_item (/shop_set passes any integer or None), the
\* delta_qty of restock_item and the qty of buy_item
SetQtys == {None, Some(-1), Some(1)}
Deltas == {-1, 1}
BuyQtys == {0, 2}

Meta(price_knuts, qty) == [price_knuts |-> price_knuts, qty |-> qty]

\* shop._load(): {} for a missing or unreadable file
ShopLoad(f) == IF f.kind = "obj" THEN f.data ELSE EmptyMap

\* the frame of a shop call: the operation, the item, the price or quantity
\* argument and, for set_item, the qty argument
ShopFrame(name, item, n, qty) == Frame(name, item, qty, n, 0)

\* qty = max(1, int(qty)) of buy_item
BuyQty_raw(qty) == qty

BuyQty(qty) == Max(1, qty)

\* new = max(0, old + int(delta_qty)) of restock_item
Restocked_unclamped(old, delta_qty) == old + delta_qty

Restocked(old, delta_qty) == Max(0, old + delta_qty)

\* what a mutating call makes of the items it loaded (the dict it saves)
ShopUpdate(f, d) ==
    LET item == f.kk
    IN  CASE f.name = "set_item" -> Put(d, item, Meta(f.amt, f.rk))
          [] f.name = "restock_item" ->
                Put(d, item,
                    Meta(d[item].price_knuts,
                         Some(Restocked(d[item].qty[1], f.amt))))
          [] f.name = "set_price" -> Put(d, item, Meta(f.amt, d[item].qty))
          [] f.name = "remove_item" -> Pop(d, item)
          [] f.name = "buy_item" ->
                IF d[item].qty = None THEN d
                ELSE Put(d, item,
                         Meta(d[item].price_knuts,
                              Some(d[item].qty[1] - f.amt)))
          [] OTHER -> d

\* the call returns without a save
ShopReturns(t, f, r) ==
    /\ Goto(t, "return", f, EmptyMap, r)
    /\ UNCHANGED <<file, tmp, lock, outside>>

\* the call goes on to _save_atomic(data) with the dict it changed
ShopChanges(t, f, r) ==
    /\ Goto(t, "shopsave", f, ShopUpdate(f, ShopLoad(shopfile)), r)
    /\ UNCHANGED <<file, tmp, lock, outside>>

set_item(t, item, price, qty) ==
    /\ At(t, "idle")
    /\ ShopChanges(t, ShopFrame("set_item", item, price, qty), RetVoid)

restock_item(t, item, delta_qty) ==
    LET d == ShopLoad(shopfile)
        f == ShopFrame("restock_item", item, delta_qty, None)
    IN  /\ At(t, "idle")
        /\ IF item \notin DOMAIN d THEN ShopReturns(t, f, RetBool(FALSE))
           ELSE IF d[item].qty = None THEN ShopReturns(t, f, RetBool(TRUE))
           ELSE /\ d[item].qty[1] + delta_qty <= MaxStock
                /\ ShopChanges(t, f, RetBool(TRUE))

set_price(t, item, price) ==
    LET d == ShopLoad(shopfile)
        f == ShopFrame("set_price", item, price, None)
    IN  /\ At(t, "idle")
        /\ IF item \notin DOMAIN d THEN ShopReturns(t, f, RetBool(FALSE))
           ELSE ShopChanges(t, f, RetBool(TRUE))

remove_item(t, item) ==
    LET d == ShopLoad(shopfile)
        f == ShopFrame("remove_item", item, 0, None)
    IN  /\ At(t, "idle")
        /\ IF item \notin DOMAIN d THEN ShopReturns(t, f, RetBool(FALSE))
           ELSE ShopChanges(t, f, RetBool(TRUE))

\* buy_item returns None (RetNone) or the total price; the frame keeps the
\* quantity bought (amt) and the qty argument (cur)
buy_item(t, item, qty0) ==
    LET qty == BuyQty(qty0)
        d == ShopLoad(shopfile)
        f == [ShopFrame("buy_item", item, qty, None) EXCEPT !.cur = qty0]
    IN  /\ At(t, "idle")
        /\ IF item \notin DOMAIN d THEN ShopReturns(t, f, RetNone)
           ELSE IF d[item].qty # None /\ d[item].qty[1] < qty
                THEN ShopReturns(t, f, RetNone)
           ELSE ShopChanges(t, f, RetMoney(d[item].price_knuts * qty))

\* _save_atomic(data): the temporary file replaces shops.json
ShopSave(t) ==
    /\ At(t, "shopsave")
    /\ shopfile' = Obj(data[t])
    /\ pc' = [pc EXCEPT ![t] = "return"]
    /\ UNCHANGED <<file, tmp, lock, frame, data, ret, linkfile, linklock,
                   pending, posted, today,
                   now, last_earn_at>>

NextShop ==
    \E t \in Threads :
        \/ \E item \in ShopItems, price \in ShopPrices, qty \in SetQtys :
              set_item(t, item, price, qty)
        \/ \E item \in ShopItems, delta_qty \in Deltas :
              restock_item(t, item, delta_qty)
        \/ \E item \in ShopItems, price \in ShopPrices :
              set_price(t, item, price)
        \/ \E item \in ShopItems : remove_item(t, item)
        \/ \E item \in ShopItems, qty \in BuyQtys : buy_item(t, item, qty)
        \/ ShopSave(t)
        \/ Return(t)

SpecShop == Init /\ [][NextShop]_vars

\* ----------------------------------------------- pending daily receipts
\* src/bot.py: pending_receipts.json maps a UTC date to guild id ->
\* "user:character" -> {"knuts", "count"}.  The bucket of a day is modelled
\* as a map from <<guild key, "user:character">> to the record.  The bot
\* runs on one event loop: a coroutine runs alone until it awaits the
\* network, so the threads of the model are the tasks of the loop.
MaxDay == 2
MaxCount == 2

\* EARN_PER_MESSAGE.knuts, the delta on_message passes
EARN_PER_MESSAGE == 7

\* the (guild_id, user_id, char_key, delta_knuts) arguments of
\* queue_rp_earning
QueueArgs ==
    {<<g, g, <<"c">>, d>> : g \in {1, 2}, d \in {0, EARN_PER_MESSAGE}}

\* f"{user_id}:{char_key}"
Uck(user_id, char_key) == Str(user_id) \o <<":">> \o char_key

\* the entries of a bucket in the order flush_daily_receipts visits them
PendingOrder == << <<Str(1), Uck(1, <<"c">>)>>, <<Str(2), Uck(2, <<"c">>)>> >>

Rec(knuts, count) == [knuts |-> knuts, count |-> count]

\* _pending_load(): {} for a missing or unparseable file
PendingLoad(f) == IF f.kind = "obj" THEN f.data ELSE EmptyMap

\* a coroutine is running between two awaits: no other task runs
LoopBusy == \E u \in Threads : pc[u] \in {"flush", "return"}

\* queue_rp_earning(guild_id, user_id, char_key, delta_knuts): no await
\* between its load and its save
queue_rp_earning(t, guild_id, user_id, char_key, delta_knuts) ==
    LET d == PendingLoad(pending)
        day_bucket == IF today \in DOMAIN d THEN d[today] ELSE EmptyMap
        e == <<Str(guild_id), Uck(user_id, char_key)>>
        rec == IF e \in DOMAIN day_bucket THEN day_bucket[e] ELSE Rec(0, 0)
        new == Rec(rec.knuts + delta_knuts, rec.count + 1)
    IN  /\ pc[t] = "idle"
        /\ ~LoopBusy
        /\ new.count <= MaxCount
        /\ pending' = Obj(Put(d, today, Put(day_bucket, e, new)))
        /\ Goto(t, "return",
                Frame("queue_rp_earning", e[2], e[1], delta_knuts, 0),
                EmptyMap, RetVoid)
        /\ UNCHANGED <<file, tmp, lock, linkfile, linklock, shopfile, posted,
                       today,
                       now, last_earn_at>>

\* the UTC date changes
Midnight ==
    /\ today < MaxDay
    /\ ~LoopBusy
    /\ today' = today + 1
    /\ UNCHANGED <<file, tmp, lock, pc, frame, data, ret, linkfile, linklock,
                   shopfile, pending, posted,
                   now, last_earn_at>>

\* the position in PendingOrder of the first entry of the bucket after
\* position cur, or 0 when the loops are over
NextEntry(bucket, cur) ==
    LET left == {i \in DOMAIN PendingOrder :
                    i > cur /\ PendingOrder[i] \in DOMAIN bucket}
    IN  IF left = {} THEN 0 ELSE CHOOSE i \in left : \A j \in left : i <= j

\* the summary receipt of an entry
Receipt(day, e, rec) ==
    [day |-> day, guild |-> e[1], uck |-> e[2], knuts |-> rec.knuts,
     count |-> rec.count]

\* flush_daily_receipts starts (tasks.loop runs one flush at a time): it
\* loads the file and returns when yesterday has no bucket
FlushStart(t) ==
    LET d == PendingLoad(pending)
        prev_day == today - 1
        f == Frame("flush_daily_receipts", <<>>, <<>>, prev_day, 0)
    IN  /\ pc[t] = "idle"
        /\ ~LoopBusy
        /\ \A u \in Threads : pc[u] # "await"
        /\ IF prev_day \notin DOMAIN d \/ d[prev_day] = EmptyMap
           THEN Goto(t, "return", f, EmptyMap, RetVoid)
           ELSE Goto(t, "flush", f, d, RetVoid)
        /\ UNCHANGED <<file, tmp, lock, outside>>

\* the loops reach the next entry: the guild is unknown to the bot, the key
\* has no colon, the totals are not positive or post_receipt finds no vault
\* thread (the loop goes on), or post_receipt awaits the network
FlushVisit(t) ==
    LET bucket == data[t][frame[t].amt]
        i == NextEntry(bucket, frame[t].cur)
        e == PendingOrder[i]
        rec == bucket[e]
    IN  /\ pc[t] = "flush"
        /\ i # 0
        /\ \E guild_found \in BOOLEAN, has_vault \in BOOLEAN :
              LET goes_on ==
                      \/ ~guild_found
                      \/ ~HasColon(e[2])
                      \/ rec.knuts <= 0
                      \/ rec.count <= 0
                      \/ ~has_vault
              IN  pc' = [pc EXCEPT ![t] = IF goes_on THEN "flush" ELSE "await"]
        /\ frame' = [frame EXCEPT ![t].cur = i]
        /\ UNCHANGED <<file, tmp, lock, data, ret, outside>>

\* post_receipt comes back from guild.fetch_channel and channel.send: the
\* receipt was sent, or an exception was logged and swallowed
FlushAwaited(t) ==
    LET bucket == data[t][frame[t].amt]
        e == PendingOrder[frame[t].cur]
    IN  /\ pc[t] = "await"
        /\ ~LoopBusy
        /\ \E outcome \in {"sent", "fetch_channel_failed", "send_failed"} :
              posted' = IF outcome = "sent"
                        THEN posted \cup {Receipt(frame[t].amt, e, bucket[e])}
                        ELSE posted
        /\ pc' = [pc EXCEPT ![t] = "flush"]
        /\ UNCHANGED <<file, tmp, lock, frame, data, ret, linkfile, linklock,
                       shopfile, pending, today,
                       now, last_earn_at>>

\* after the loops: data.pop(prev_day, None) and _pending_save_atomic(data)
FlushEnd(t) ==
    /\ pc[t] = "flush"
    /\ NextEntry(data[t][frame[t].amt], frame[t].cur) = 0
    /\ pending' = Obj(Pop(data[t], frame[t].amt))
    /\ pc' = [pc EXCEPT ![t] = "return"]
    /\ UNCHANGED <<file, tmp, lock, frame, data, ret, linkfile, linklock,
                   shopfile, posted, today,
                   now, last_earn_at>>

NextPending ==
    \/ Midnight
    \/ \E t \in Threads :
        \/ \E a \in QueueArgs : queue_rp_earning(t, a[1], a[2], a[3], a[4])
        \/ FlushStart(t)
        \/ FlushVisit(t)
        \/ FlushAwaited(t)
        \/ FlushEnd(t)
        \/ Return(t)

SpecPending == Init /\ [][NextPending]_vars

\* ---------------------------------------------------------- bot commands
\* src/bot.py: the slash commands run as tasks of one event loop, so a
\* handler runs alone until it awaits the network.  The ledger, link and
\* shop calls of a handler are synchronous: on a healthy disk each of them
\* loads and saves within the step of the handler that makes it.
BotNames == {<<"B", "o", "b">>, <<"A", "l">>}

\* the link table of a server where Bob is linked to user 1 and Al to user 2
BotLinks == (<<"b", "o", "b">> :> 1) @@ (<<"a", "l">> :> 2)

\* the prices /shop_set is given, the amounts /award_character is given and
\* the amounts /tip and /vault_withdraw are given (Money.from_str accepts a
\* leading minus sign)
BotPrices == {-1, 0, 1}
AwardAmounts == {-1, 1}
TipAmounts == {0, 1}

InitBot ==
    /\ linkfile = Obj(BotLinks)
    /\ linklock = NoThread
    /\ shopfile = Missing
    /\ pending = Missing
    /\ posted = {}
    /\ today = 1
    /\ now = EARN_COOLDOWN_SECONDS
    /\ last_earn_at = EmptyMap
    /\ file = Missing
    /\ tmp = [t \in Threads |-> Missing]
    /\ lock = NoThread
    /\ pc = [t \in Threads |-> "idle"]
    /\ frame = [t \in Threads |-> NoFrame]
    /\ data = [t \in Threads |-> EmptyMap]
    /\ ret = [t \in Threads |-> RetNone]

\* the wallet key the commands use for a character of user uid
WalletOf(uid, character) == K(uid, Some(normalize_display_name(character)))

\* subtract_if_enough on the balances d: its result and the balances it
\* leaves
SubtractIn(d, kk, need) ==
    IF need <= 0 THEN [ok |-> TRUE, d |-> d]
    ELSE IF Insufficient(Get(d, kk), need) THEN [ok |-> FALSE, d |-> d]
    ELSE [ok |-> TRUE, d |-> Put(d, kk, Get(d, kk) - need)]

\* add_balance on the balances d
AddIn(d, kk, amount) ==
    IF ZeroAmount(amount) THEN d ELSE Put(d, kk, Get(d, kk) + amount)

\* balances.json after the ledger calls of a handler left the balances d:
\* a call that changes nothing does not save
BotFile(d) == IF d = Load(file).val THEN file ELSE Obj(d)

\* a handler starts when no other task is running
Handles(t) == pc[t] = "idle" /\ ~LoopBusy

\* the handler ends (what follows only sends messages)
Ends(t, f, r) == Goto(t, "return", f, EmptyMap, r)

\* /shop_set: set_item(town, shop, item, money, qty)
shop_set_cmd(t, item, price, qty) ==
    /\ Handles(t)
    /\ shopfile' = Obj(ShopUpdate(ShopFrame("set_item", item, price, qty),
                                  ShopLoad(shopfile)))
    /\ Ends(t, ShopFrame("shop_set", item, price, qty), RetVoid)
    /\ UNCHANGED <<file, tmp, lock, linkfile, linklock, pending, posted,
                   today,
                   now, last_earn_at>>

\* /award_character: deposit_to_character adds the amount as it is
award_character_cmd(t, character, amount) ==
    LET uid == ResolveIn(Load(linkfile).val, character)
        kk == WalletOf(uid[1], character)
        d == Load(file).val
    IN  /\ Handles(t)
        /\ IF uid = None
           THEN /\ Ends(t, Frame("award_character", <<>>, <<>>, amount, 0),
                        RetBool(FALSE))
                /\ UNCHANGED file
           ELSE /\ InRange(Get(d, kk) + amount)
                /\ file' = BotFile(AddIn(d, kk, amount))
                /\ Ends(t, Frame("award_character", kk, <<>>, amount,
                                 Get(d, kk)),
                        RetBool(TRUE))
        /\ UNCHANGED <<tmp, lock, outside>>

\* /vault_withdraw: withdraw_from_character of a positive amount
vault_withdraw_cmd(t, character, m) ==
    LET uid == ResolveIn(Load(linkfile).val, character)
        kk == WalletOf(uid[1], character)
        d == Load(file).val
    IN  /\ Handles(t)
        /\ IF uid = None \/ m <= 0
           THEN /\ Ends(t, Frame("vault_withdraw", <<>>, <<>>, m, 0),
                        RetBool(FALSE))
                /\ UNCHANGED file
           ELSE /\ file' = BotFile(SubtractIn(d, kk, m).d)
                /\ Ends(t, Frame("vault_withdraw", kk, <<>>, m, Get(d, kk)),
                        RetBool(SubtractIn(d, kk, m).ok))
        /\ UNCHANGED <<tmp, lock, outside>>

\* /shop buy: the price is looked up, the wallet is debited, buy_item takes
\* the stock and a refused buy_item is followed by a refund; the frame keeps
\* the wallet (kk), the item (rk), the quantity (amt) and the balance the
\* wallet had (cur)
shop_buy_cmd(t, invoker, staff, character, item, quantity) ==
    LET uid == ResolveIn(Load(linkfile).val, character)
        kk == WalletOf(uid[1], character)
        qty == Max(1, quantity)
        inv == ShopLoad(shopfile)
        price == inv[item].price_knuts
        total == price * qty
        d == Load(file).val
        sub == SubtractIn(d, kk, total)
        out_of_stock == inv[item].qty # None /\ inv[item].qty[1] < BuyQty(qty)
        f == Frame("shop_buy", kk, item, qty, Get(d, kk))
    IN  /\ Handles(t)
        /\ IF \/ uid = None
              \/ (uid[1] # invoker /\ ~staff)
              \/ item \notin DOMAIN inv
              \/ price = 0
           THEN /\ Ends(t, Frame("shop_buy", <<>>, item, qty, 0),
                        RetBool(FALSE))
                /\ UNCHANGED <<file, shopfile,
                               now, last_earn_at>>
           ELSE IF ~sub.ok
           THEN /\ Ends(t, f, RetBool(FALSE))
                /\ UNCHANGED <<file, shopfile,
                               now, last_earn_at>>
           ELSE IF out_of_stock
           THEN /\ InRange(Get(sub.d, kk) + total)
                /\ file' = BotFile(AddIn(sub.d, kk, total))
                /\ Ends(t, f, RetBool(FALSE))
                /\ UNCHANGED shopfile
           ELSE /\ file' = BotFile(sub.d)
                /\ shopfile' =
                      Obj(ShopUpdate(ShopFrame("buy_item", item, BuyQty(qty),
                                               None), inv))
                /\ Ends(t, f, RetMoney(total))
        /\ UNCHANGED <<tmp, lock, linkfile, linklock, pending, posted, today,
                       now, last_earn_at>>

\* /tip up to its first suspension: the sender is debited and post_receipt
\* either finds no vault thread, and the receiver is credited at once, or
\* awaits the network
tip_cmd(t, invoker, from_character, to_character, m) ==
    LET links == Load(linkfile).val
        from_uid == ResolveIn(links, from_character)
        to_uid == ResolveIn(links, to_character)
        s_kk == WalletOf(from_uid[1], from_character)
        r_kk == WalletOf(to_uid[1], to_character)
        d == Load(file).val
        sub == SubtractIn(d, s_kk, m)
        f == Frame("tip", s_kk, r_kk, m, Get(d, s_kk))
    IN  /\ Handles(t)
        /\ IF \/ from_uid = None
              \/ to_uid = None
              \/ from_uid[1] # invoker
              \/ m <= 0
           THEN /\ Ends(t, Frame("tip", <<>>, <<>>, m, 0), RetBool(FALSE))
                /\ UNCHANGED file
           ELSE IF ~sub.ok
           THEN /\ Ends(t, f, RetBool(FALSE))
                /\ UNCHANGED file
           ELSE \E has_vault \in BOOLEAN :
                   /\ InRange(Get(d, r_kk) + m)
                   /\ IF has_vault
                      THEN /\ file' = BotFile(sub.d)
                           /\ Goto(t, "await", f, EmptyMap, RetNone)
                      ELSE /\ file' = BotFile(AddIn(sub.d, r_kk, m))
                           /\ Ends(t, f, RetBool(TRUE))
        /\ UNCHANGED <<tmp, lock, outside>>

\* /tip after post_receipt came back: deposit_to_character credits the
\* receiver
TipResumes(t) ==
    /\ pc[t] = "await"
    /\ frame[t].name = "tip"
    /\ ~LoopBusy
    /\ file' = BotFile(AddIn(Load(file).val, frame[t].rk, frame[t].amt))
    /\ Ends(t, frame[t], RetBool(TRUE))
    /\ UNCHANGED <<tmp, lock, outside>>

NextBot ==
    \E t \in Threads :
        \/ \E item \in ShopItems, price \in BotPrices, qty \in SetQtys :
              shop_set_cmd(t, item, price, qty)
        \/ \E character \in BotNames, amount \in AwardAmounts :
              award_character_cmd(t, character, amount)
        \/ \E character \in BotNames, m \in TipAmounts :
              vault_withdraw_cmd(t, character, m)
        \/ \E invoker \in Users, staff \in BOOLEAN, character \in BotNames,
              item \in ShopItems, quantity \in BuyQtys :
              shop_buy_cmd(t, invoker, staff, character, item, quantity)
        \/ \E invoker \in Users, from_character \in BotNames,
              to_character \in BotNames, m \in TipAmounts :
              tip_cmd(t, invoker, from_character, to_character, m)
        \/ TipResumes(t)
        \/ Return(t)

SpecBot == InitBot /\ [][NextBot]_vars

\* ------------------------------------------------------- message earning
\* src/bot.py: on_message pays a linked character for a qualifying message
\* (webhook author, allowed channel, long enough) unless can_payout says the
\* character was paid less than EARN_COOLDOWN_SECONDS ago.  last_earn_at
\* lives in memory; DEBUG_BYPASS_COOLDOWN is off.

\* the clock runs up to MaxPeriods cooldown periods
MaxPeriods == 4

\* seconds that pass between two events
ClockSteps == {7, 8}

\* the server: Bob and Al are characters of user 1, Zed is not linked
EarnLinks == (<<"b", "o", "b">> :> 1) @@ (<<"a", "l">> :> 1)
EarnNames == {<<"B", "o", "b">>, <<"A", "l">>, <<"Z", "e", "d">>}

InitEarn ==
    /\ linkfile = Obj(EarnLinks)
    /\ linklock = NoThread
    /\ shopfile = Missing
    /\ pending = Missing
    /\ posted = {}
    /\ today = 1
    /\ now = EARN_COOLDOWN_SECONDS
    /\ last_earn_at = EmptyMap
    /\ file = Missing
    /\ tmp = [t \in Threads |-> Missing]
    /\ lock = NoThread
    /\ pc = [t \in Threads |-> "idle"]
    /\ frame = [t \in Threads |-> NoFrame]
    /\ data = [t \in Threads |-> EmptyMap]
    /\ ret = [t \in Threads |-> RetNone]

\* the key of last_earn_at: (owner_user_id, (char_key or "").lower())
CooldownKey_owner_only(owner_user_id, char_key) == <<owner_user_id>>

CooldownKey(owner_user_id, char_key) == <<owner_user_id, char_key>>

\* last_earn_at.get(key, 0.0)
LastEarn(key) == Get(last_earn_at, key)

\* can_payout: now - last >= EARN_COOLDOWN_SECONDS
CooledDown(last) == now - last >= EARN_COOLDOWN_SECONDS

\* the pending file after queue_rp_earning
QueueIn(f, guild_id, user_id, char_key, delta_knuts) ==
    LET d == PendingLoad(f)
        day_bucket == IF today \in DOMAIN d THEN d[today] ELSE EmptyMap
        e == <<Str(guild_id), Uck(user_id, char_key)>>
        rec == IF e \in DOMAIN day_bucket THEN day_bucket[e] ELSE Rec(0, 0)
    IN  Obj(Put(d, today,
                Put(day_bucket, e,
                    Rec(rec.knuts + delta_knuts, rec.count + 1))))

\* on_message for a qualifying message of the webhook author raw_name; the
\* frame keeps the wallet (kk), the character key (rk), the time (amt) and
\* the time last_earn_at held for the character (cur)
on_message(t, raw_name) ==
    LET linked_uid == ResolveIn(Load(linkfile).val, raw_name)
        char_key == normalize_display_name(raw_name)
        key == CooldownKey(linked_uid[1], char_key)
        kk == WalletOf(linked_uid[1], char_key)
        f == Frame("on_message", kk, char_key, now, LastEarn(key))
    IN  /\ Handles(t)
        /\ IF linked_uid = None
           THEN /\ Ends(t, Frame("on_message", <<>>, char_key, now, 0),
                        RetBool(FALSE))
                /\ UNCHANGED <<file, pending, last_earn_at>>
           ELSE IF ~CooledDown(LastEarn(key))
           THEN /\ Ends(t, f, RetBool(FALSE))
                /\ UNCHANGED <<file, pending, last_earn_at>>
           ELSE /\ last_earn_at' = Put(last_earn_at, key, now)
                /\ file' = BotFile(AddIn(Load(file).val, kk, EARN_PER_MESSAGE))
                /\ pending' = QueueIn(pending, 1, linked_uid[1], char_key,
                                      EARN_PER_MESSAGE)
                /\ Ends(t, f, RetBool(TRUE))
        /\ UNCHANGED <<tmp, lock, linkfile, linklock, shopfile, posted, today,
                       now>>

\* time passes while no handler runs
Tick(dt) ==
    /\ \A t \in Threads : pc[t] = "idle"
    /\ now + dt <= EARN_COOLDOWN_SECONDS * MaxPeriods
    /\ now' = now + dt
    /\ UNCHANGED <<file, tmp, lock, pc, frame, data, ret, linkfile, linklock,
                   shopfile, pending, posted, today, last_earn_at>>

NextEarn ==
    \/ \E t \in Threads :
          \/ \E raw_name \in EarnNames : on_message(t, raw_name)
          \/ Return(t)
    \/ \E dt \in ClockSteps : Tick(dt)

SpecEarn == InitEarn /\ [][NextEarn]_vars

\* -------------------------------------------------------- starter funds
\* src/bot.py: /link_character grants STARTER_FUNDS ("50g") when the wallet
\* of the linked character reads zero.
STARTER_FUNDS == 50 * KNUTS_PER_GALLEON

\* what /vault_withdraw is asked for in the runs about starter funds
SpendAmounts == {STARTER_FUNDS}

\* /link_character name [user]: link_character, then the grant
link_character_cmd(t, name, target) ==
    LET key == normalize_display_name(name)
        kk == WalletOf(target, name)
        d == Load(file).val
        current == Get(d, kk)
    IN  /\ Handles(t)
        /\ ~NormalizeFails(name)
        /\ linkfile' = Obj(Put(Load(linkfile).val, normalize_or_fail(name),
                               target))
        /\ file' = IF current = 0 /\ STARTER_FUNDS > 0
                   THEN BotFile(AddIn(d, kk, STARTER_FUNDS))
                   ELSE file
        /\ Ends(t, Frame("link_character", kk, key, target, current), RetVoid)
        /\ UNCHANGED <<tmp, lock, linklock, shopfile, pending, posted, today,
                       now, last_earn_at>>

\* /unlink_character name
unlink_character_cmd(t, name) ==
    LET d == Load(linkfile).val
    IN  /\ Handles(t)
        /\ linkfile' = IF Found(d, name) # {}
                       THEN Obj(UnlinkUpdate(d, name))
                       ELSE linkfile
        /\ Ends(t, Frame("unlink_character", <<>>, name, 0, 0),
                RetBool(Found(d, name) # {}))
        /\ UNCHANGED <<file, tmp, lock, linklock, shopfile, pending, posted,
                       today, now, last_earn_at>>

NextStarter ==
    \E t \in Threads :
        \/ \E name \in BotNames, target \in Users :
              link_character_cmd(t, name, target)
        \/ \E name \in BotNames : unlink_character_cmd(t, name)
        \/ \E character \in BotNames, m \in SpendAmounts :
              vault_withdraw_cmd(t, character, m)
        \/ Return(t)

SpecStarter == Init /\ [][NextStarter]_vars

\* ================================================================ claims
\* t decides a call of operation `name` in this step
Decides(t, name) == pc[t] = "idle" /\ pc'[t] # "idle" /\ frame'[t].name = name

\* t is inside the save of operation `name`
Saving(t, name) == frame[t].name = name /\ pc[t] \in {"open", "dump", "replace"}

\* t installs its temporary file in this step
Installs(t) == pc[t] = "replace" /\ pc'[t] = "release" /\ file' = tmp[t]

\* the balance the call decided in this step leaves in wallet k: the value it
\* goes on to save, or the stored one when it returns without a save
LeftIn(t, k) == IF pc'[t] = "open" THEN Get(data'[t], k) ELSE Bal(file, k)

\* every entry outside S is the same in f and g
SameOutside(f, g, S) ==
    /\ (DOMAIN f.data) \ S = (DOMAIN g.data) \ S
    /\ \A k \in (DOMAIN f.data) \ S : f.data[k] = g.data[k]

\* ---------------------------------------------------------------- C1
\* C1 as stated: for every amount and every stored balance,
\* subtract_if_enough returns false and leaves the balance when the amount
\* exceeds the balance, and returns true and leaves balance - amount when it
\* does not.
C1_SubtractEveryAmount ==
    [][\A t \in Threads :
        (Decides(t, "subtract_if_enough") /\ ret'[t].kind = "bool") =>
            LET kk == frame'[t].kk
                need == frame'[t].amt
                b == Bal(file, kk)
            IN  /\ need > b => (ret'[t].val = FALSE /\ LeftIn(t, kk) = b)
                /\ need <= b => (ret'[t].val = TRUE /\ LeftIn(t, kk) = b - need)
      ]_vars

\* C1 amended: for an amount > 0 the claim holds as stated (false and no
\* save when the amount exceeds the balance, else true and the saved balance
\* is balance - amount, all other entries kept); for an amount <= 0 the call
\* returns true and changes nothing.
C1_SubtractIfEnough ==
    [][\A t \in Threads :
        /\ (Decides(t, "subtract_if_enough") /\ ret'[t].kind = "bool") =>
            LET kk == frame'[t].kk
                need == frame'[t].amt
                b == Bal(file, kk)
            IN  /\ need <= 0 =>
                    (ret'[t].val = TRUE /\ pc'[t] = "return" /\ file' = file)
                /\ (need > 0 /\ need > b) =>
                    (ret'[t].val = FALSE /\ pc'[t] = "release" /\ file' = file)
                /\ (need > 0 /\ need <= b) =>
                    (ret'[t].val = TRUE /\ pc'[t] = "open")
        /\ (Installs(t) /\ frame[t].name = "subtract_if_enough") =>
            /\ Bal(file', frame[t].kk) = Bal(file, frame[t].kk) - frame[t].amt
            /\ SameOutside(file, file', {frame[t].kk})
        /\ (frame[t].name = "subtract_if_enough" /\ pc[t] = "release"
                /\ ret[t].kind = "bool") =>
            Bal(file, frame[t].kk) =
                IF ret[t].val THEN frame[t].cur - frame[t].amt ELSE frame[t].cur
      ]_vars

\* a conditional debit that was covered has been saved
C1_Witness ==
    \E t \in Threads :
        /\ pc[t] = "release"
        /\ frame[t].name = "subtract_if_enough"
        /\ ret[t] = RetBool(TRUE)
        /\ frame[t].cur = 2
        /\ Bal(file, frame[t].kk) = 1

\* ---------------------------------------------------------------- C2
\* the conditional debits
Debits == {"subtract_if_enough", "transfer"}

\* t is between its _load() and the end of its with-block
InBlock(t) == pc[t] \in {"open", "dump", "replace", "release"}

\* C2 as stated: from a store without negative balances, under any
\* interleaving of ledger operations, no state of the file and no value
\* returned by get_balance is negative.
C2_NeverNegative ==
    /\ \A k \in DOMAIN file.data : file.data[k] >= 0
    /\ \A t \in Threads :
        (frame[t].name = "get_balance" /\ ret[t].kind = "money") => ret[t].val >= 0

\* C2 amended: a conditional debit checks and subtracts while it holds the
\* lock, and no save of a conditional debit (subtract_if_enough, transfer)
\* takes a wallet from >= 0 to < 0, under any interleaving; the balance it
\* checked is the balance it overwrites.
C2_DebitNeverOverdraws ==
    [][\A t \in Threads :
        /\ (InBlock(t) /\ frame[t].name \in Debits) => lock = t
        /\ (Installs(t) /\ frame[t].name \in Debits) =>
            /\ Bal(file, frame[t].kk) = frame[t].cur
            /\ \A k \in (DOMAIN file.data) \cup (DOMAIN file'.data) :
                    Bal(file, k) >= 0 => Bal(file', k) >= 0
      ]_vars

\* a conditional debit has taken a wallet to exactly zero
C2_Witness ==
    \E t \in Threads :
        /\ pc[t] = "release"
        /\ frame[t].name \in Debits
        /\ ret[t] = RetBool(TRUE)
        /\ frame[t].cur = frame[t].amt
        /\ frame[t].kk \in DOMAIN file.data
        /\ file.data[frame[t].kk] = 0

\* ---------------------------------------------------------------- C3
\* C3: a transfer of amt > 0 between two distinct wallets whose sender holds
\* at least amt returns true, and its save lowers the sender by amt, raises
\* the receiver by amt (creating it when absent) and keeps every other
\* entry.
C3_Transfer ==
    [][\A t \in Threads :
        /\ Decides(t, "transfer") =>
            LET f == frame'[t]
            IN  (f.amt > 0 /\ f.kk # f.rk /\ Bal(file, f.kk) >= f.amt) =>
                    (ret'[t] = RetBool(TRUE) /\ pc'[t] = "open")
        /\ (Installs(t) /\ frame[t].name = "transfer"
                /\ frame[t].kk # frame[t].rk) =>
            LET f == frame[t]
            IN  /\ Bal(file', f.kk) = Bal(file, f.kk) - f.amt
                /\ Bal(file', f.rk) = Bal(file, f.rk) + f.amt
                /\ f.rk \in DOMAIN file'.data
                /\ SameOutside(file, file', {f.kk, f.rk})
        /\ (frame[t].name = "transfer" /\ pc[t] = "release"
                /\ ret[t] = RetBool(TRUE) /\ frame[t].kk # frame[t].rk) =>
            /\ Bal(file, frame[t].kk) = frame[t].cur - frame[t].amt
            /\ Bal(file, frame[t].rk) = Get(data[t], frame[t].rk)
      ]_vars

\* a transfer to an absent receiver has been saved
C3_Witness ==
    \E t \in Threads :
        /\ pc[t] = "release"
        /\ frame[t].name = "transfer"
        /\ ret[t] = RetBool(TRUE)
        /\ frame[t].kk # frame[t].rk
        /\ frame[t].cur = 2
        /\ Bal(file, frame[t].kk) = 1
        /\ Bal(file, frame[t].rk) = frame[t].amt

\* ---------------------------------------------------------------- C4
\* C4: a transfer holds the lock from its load to the end of its save, and
\* in that time every step leaves in the file either both of its changes or
\* neither, so no load and no state of the file shows one side only.
C4_TransferAtomic ==
    [][\A t \in Threads :
        Saving(t, "transfer") =>
            LET f == frame[t]
            IN  /\ lock = t
                /\ \/ /\ Bal(file', f.kk) = Bal(file, f.kk)
                      /\ Bal(file', f.rk) = Bal(file, f.rk)
                   \/ /\ Installs(t)
                      /\ Bal(file', f.kk) = Get(data[t], f.kk)
                      /\ Bal(file', f.rk) = Get(data[t], f.rk)
                      /\ f.kk # f.rk =>
                            /\ Bal(file', f.kk) = Bal(file, f.kk) - f.amt
                            /\ Bal(file', f.rk) = Bal(file, f.rk) + f.amt
      ]_vars

\* both changes are in the temporary file and the destination shows neither
C4_Witness ==
    \E t \in Threads :
        /\ pc[t] = "replace"
        /\ frame[t].name = "transfer"
        /\ frame[t].kk # frame[t].rk
        /\ tmp[t] = Obj(data[t])
        /\ Bal(file, frame[t].kk) = frame[t].cur
        /\ Bal(file, frame[t].rk) = Get(data[t], frame[t].rk) - frame[t].amt

\* ---------------------------------------------------------------- C5
\* C5: a transfer whose sender and receiver resolve to the same storage key
\* returns false and saves nothing.
C5_SameWalletRejected ==
    \A t \in Threads :
        (frame[t].name = "transfer" /\ frame[t].kk = frame[t].rk
            /\ ret[t].kind = "bool") =>
            (ret[t].val = FALSE /\ pc[t] \in {"return", "release"})

\* ---------------------------------------------------------------- C6
\* C6: a transfer with amount <= 0 or with a sender balance below the amount
\* returns false; a transfer that returns false creates and modifies no
\* entry and performs no save.
C6_FailedTransferNoChange ==
    [][\A t \in Threads :
        /\ (Decides(t, "transfer") /\ ret'[t].kind = "bool") =>
            LET f == frame'[t]
            IN  /\ (f.amt <= 0 \/ Bal(file, f.kk) < f.amt) => ret'[t].val = FALSE
                /\ ret'[t].val = FALSE =>
                    /\ pc'[t] \in {"return", "release"}
                    /\ file' = file
                    /\ tmp' = tmp
        /\ (frame[t].name = "transfer" /\ ret[t] = RetBool(FALSE)) =>
            /\ pc[t] \in {"return", "release"}
            /\ pc'[t] # pc[t] => (pc'[t] = "idle" /\ file' = file)
      ]_vars

\* a transfer was refused for lack of funds and the receiver was not created
C6_Witness ==
    \E t \in Threads :
        /\ pc[t] = "release"
        /\ frame[t].name = "transfer"
        /\ ret[t] = RetBool(FALSE)
        /\ frame[t].amt > 0
        /\ frame[t].cur < frame[t].amt
        /\ file.kind = "obj"
        /\ frame[t].rk \notin DOMAIN file.data
        /\ file.data = data[t]

\* ---------------------------------------------------------------- C7
Mutators ==
    {"set_balance", "add_balance", "subtract_if_enough", "transfer",
     "rename_character_key"}

\* the map a mutating call with frame f makes of the stored map d
Applied(f, d) ==
    CASE f.name = "set_balance" -> Put(d, f.kk, f.amt)
      [] f.name = "add_balance" -> Put(d, f.kk, Get(d, f.kk) + f.amt)
      [] f.name = "subtract_if_enough" -> Put(d, f.kk, Get(d, f.kk) - f.amt)
      [] f.name = "transfer" ->
            Put(Put(d, f.kk, Get(d, f.kk) - f.amt), f.rk,
                Get(Put(d, f.kk, Get(d, f.kk) - f.amt), f.rk) + f.amt)
      [] f.name = "rename_character_key" -> Put(Pop(d, f.kk), f.rk, d[f.kk])
      [] OTHER -> d

\* C7: a mutating operation holds the lock from its load to the end of its
\* save, at most one thread is in that section, and every save installs the
\* operation applied to the map that is stored at that moment: the stored
\* map is always the result of the saved calls in the order of their saves,
\* so no update is lost (add_balance leaves stored + delta).
C7_Serialized ==
    [][\A t \in Threads :
        /\ InBlock(t) => (lock = t /\ \A u \in Threads \ {t} : ~InBlock(u))
        /\ (Installs(t) /\ frame[t].name \in Mutators) =>
            /\ file' = Obj(Applied(frame[t], Load(file).val))
            /\ frame[t].name = "add_balance" =>
                Bal(file', frame[t].kk) = Bal(file, frame[t].kk) + frame[t].amt
      ]_vars

\* a second add_balance on the same wallet has been saved: 0 + 1 + 1
C7_Witness ==
    \E t \in Threads :
        /\ pc[t] = "release"
        /\ frame[t].name = "add_balance"
        /\ frame[t].amt = 1
        /\ frame[t].cur = 1
        /\ Bal(file, frame[t].kk) = 2

\* ---------------------------------------------------------------- C8
\* C8: every step of a save, failed or not, leaves in DB_FILE the complete
\* map it held before the step or the complete map being saved.
C8_FileNeverPartial ==
    [][\/ file' = file
       \/ \E t \in Threads :
            /\ pc[t] = "replace"
            /\ file' = Obj(data[t])
      ]_vars

\* the temporary file is partly written and the destination is intact
C8_Witness ==
    \E t \in Threads :
        /\ pc[t] = "dump"
        /\ tmp[t] = Garbage
        /\ file.kind = "obj"
        /\ file.data # data[t]

\* ---------------------------------------------------------------- C9
\* C9: a save that fails leaves DB_FILE as it was, raises nothing, and the
\* call returns the result it computed before the save.
C9_SaveFailureSwallowed ==
    [][\A t \in Threads :
        SaveFails(t) =>
            /\ file' = file
            /\ ret'[t] = ret[t]
            /\ ret'[t].kind # "raise"
            /\ pc'[t] = "release"
      ]_vars

\* subtract_if_enough is about to return true and the stored balance is the
\* one it loaded
C9_Witness ==
    \E t \in Threads :
        /\ pc[t] = "release"
        /\ frame[t].name = "subtract_if_enough"
        /\ ret[t] = RetBool(TRUE)
        /\ frame[t].amt > 0
        /\ Bal(file, frame[t].kk) = frame[t].cur

\* --------------------------------------------------------------- C10
\* C10: whatever balances.json holds, no ledger operation lets an exception
\* escape.
C10_NothingRaises == \A t \in Threads : ret[t].kind # "raise"

\* --------------------------------------------------------------- C11
\* the stored value of wallet k, an absent wallet counting as zero
Stored(f, k) == IF k \in DOMAIN f.data THEN f.data[k] ELSE 0

\* C11: the save of set_balance(owner, X, key) leaves exactly X in the wallet,
\* whatever it held, and every other entry as it was; the wallet keeps its
\* value until a mutating call on that wallet is saved; get_balance returns
\* the stored value.  So get_balance after set_balance, with no mutation of
\* the wallet in between, returns X.
C11_SetThenGet ==
    [][\A t \in Threads :
        /\ (Installs(t) /\ frame[t].name = "set_balance") =>
            /\ frame[t].kk \in DOMAIN file'.data
            /\ file'.data[frame[t].kk] = frame[t].amt
            /\ SameOutside(file, file', {frame[t].kk})
        /\ (frame[t].name = "set_balance" /\ pc[t] = "release"
                /\ ret[t] = RetVoid) =>
            Stored(file, frame[t].kk) = frame[t].amt
        /\ \A k \in Keys :
            Stored(file', k) # Stored(file, k) =>
                \E u \in Threads :
                    /\ Installs(u)
                    /\ frame[u].name \in Mutators
                    /\ k \in {frame[u].kk, frame[u].rk}
        /\ (Decides(t, "get_balance") /\ ret'[t].kind # "raise") =>
            ret'[t] = RetMoney(Stored(file, frame'[t].kk))
      ]_vars

\* set_balance has overwritten a wallet with 1 next to a wallet that holds 2
C11_Witness ==
    \E t \in Threads :
        /\ pc[t] = "release"
        /\ frame[t].name = "set_balance"
        /\ frame[t].amt = 1
        /\ Stored(file, frame[t].kk) = 1
        /\ \E k \in DOMAIN file.data : k # frame[t].kk /\ file.data[k] = 2

\* --------------------------------------------------------------- C12
\* C12: add_balance with delta # 0 goes on to save, and its save leaves
\* old + delta in the wallet, old being 0 for an absent wallet and delta
\* possibly negative, and every other entry as it was.
C12_AddBalance ==
    [][\A t \in Threads :
        /\ (Decides(t, "add_balance") /\ frame'[t].amt # 0
                /\ ret'[t].kind # "raise") =>
            /\ pc'[t] = "open"
            /\ frame'[t].cur = Stored(file, frame'[t].kk)
        /\ (Installs(t) /\ frame[t].name = "add_balance") =>
            /\ frame[t].kk \in DOMAIN file'.data
            /\ file'.data[frame[t].kk] = Stored(file, frame[t].kk) + frame[t].amt
            /\ SameOutside(file, file', {frame[t].kk})
        /\ (frame[t].name = "add_balance" /\ pc[t] = "release"
                /\ ret[t] = RetVoid) =>
            Stored(file, frame[t].kk) = frame[t].cur + frame[t].amt
      ]_vars

\* a negative delta has been added to a wallet that held nothing
C12_Witness ==
    \E t \in Threads :
        /\ pc[t] = "release"
        /\ frame[t].name = "add_balance"
        /\ frame[t].cur = 0
        /\ frame[t].amt = -1
        /\ frame[t].kk \in DOMAIN file.data
        /\ file.data[frame[t].kk] = -1

\* --------------------------------------------------------------- C13
\* C13: add_balance with delta 0 returns at once: from the call to the
\* return it takes no lock, starts no load and no save, and leaves DB_FILE,
\* with the entries it has and no others, and the temporary files untouched.
C13_AddZeroNoop ==
    [][\A t \in Threads :
        /\ (Decides(t, "add_balance") /\ frame'[t].amt = 0) =>
            /\ pc'[t] = "return"
            /\ ret'[t] = RetVoid
            /\ lock' = lock
            /\ file' = file
            /\ tmp' = tmp
        /\ (frame[t].name = "add_balance" /\ frame[t].amt = 0) =>
            /\ pc[t] = "return"
            /\ lock # t
            /\ pc'[t] \in {"return", "idle"}
            /\ lock' = lock
            /\ file' = file
            /\ tmp' = tmp
      ]_vars

\* add_balance(owner, 0, key) is returning and the store, which has
\* entries, has none for its wallet
C13_Witness ==
    \E t \in Threads :
        /\ pc[t] = "return"
        /\ frame[t].name = "add_balance"
        /\ frame[t].amt = 0
        /\ file.kind = "obj"
        /\ DOMAIN file.data # {}
        /\ frame[t].kk \notin DOMAIN file.data

\* --------------------------------------------------------------- C14
\* C14: rename_character_key returns false and saves nothing when the old
\* storage key is absent or the new storage key is present (so also when
\* both are the same key); otherwise it returns true and its save leaves
\* under the new key the value the old key held, removes the old key and
\* keeps every other entry.
C14_Rename ==
    [][\A t \in Threads :
        /\ (Decides(t, "rename_character_key") /\ ret'[t].kind # "raise") =>
            LET oldk == frame'[t].kk
                newk == frame'[t].rk
            IN  IF oldk \notin DOMAIN file.data \/ newk \in DOMAIN file.data
                    \/ oldk = newk
                THEN /\ ret'[t] = RetBool(FALSE)
                     /\ pc'[t] = "release"
                     /\ file' = file
                     /\ tmp' = tmp
                ELSE /\ ret'[t] = RetBool(TRUE)
                     /\ pc'[t] = "open"
        /\ (Installs(t) /\ frame[t].name = "rename_character_key") =>
            LET oldk == frame[t].kk
                newk == frame[t].rk
            IN  /\ newk \in DOMAIN file'.data
                /\ file'.data[newk] = file.data[oldk]
                /\ oldk \notin DOMAIN file'.data
                /\ SameOutside(file, file', {oldk, newk})
        /\ (frame[t].name = "rename_character_key" /\ pc[t] = "release"
                /\ ret[t].kind = "bool") =>
            IF ret[t].val
            THEN /\ frame[t].rk \in DOMAIN file.data
                 /\ frame[t].kk \notin DOMAIN file.data
            ELSE file' = file
      ]_vars

\* a rename has been saved: the new key holds a balance, the old key is
\* gone and another entry is still there
C14_Witness ==
    \E t \in Threads :
        /\ pc[t] = "release"
        /\ frame[t].name = "rename_character_key"
        /\ ret[t] = RetBool(TRUE)
        /\ frame[t].rk \in DOMAIN file.data
        /\ file.data[frame[t].rk] = 2
        /\ frame[t].kk \notin DOMAIN file.data
        /\ \E k \in DOMAIN file.data : k # frame[t].rk

\* --------------------------------------------------------------- C15
\* the owners that have an entry in d: the owner-level key or a key that
\* starts with the owner id and ':'
Owners(d) == {u \in BoardUsers : OwnedKeys(d, u) # {}}

\* q lists pairs of distinct owners of d, each with the total user_total
\* returns for it, in non-increasing order of total
RankedTotals(q, d) ==
    /\ \A i \in DOMAIN q :
        /\ q[i][1] \in Owners(d)
        /\ q[i][2] = SumOver(d, OwnedKeys(d, q[i][1]))
    /\ \A i, j \in DOMAIN q : i < j => (q[i][1] # q[j][1] /\ q[i][2] >= q[j][2])

\* C15 as stated: top_users returns one pair per owner id, each with the
\* owner's total, in non-increasing order of total.
C15_OnePairPerOwner ==
    \A t \in Threads :
        (frame[t].name = "top_users" /\ ret[t].kind = "list") =>
            /\ RankedTotals(ret[t].val, data[t])
            /\ Len(ret[t].val) = Cardinality(Owners(data[t]))

\* C15 amended: top_users(n) returns the first max(1, n) pairs of that
\* ranking: one pair per listed owner, with the total user_total returns for
\* the owner, in non-increasing order, no owner left out having a larger
\* total than a listed one; the entries {"5": 100, "5:cat": 50, "6": 10}
\* give (5, 150) before (6, 10); user_total adds the owner-level wallet and
\* the sub-wallets of the owner.
C15_TopUsers ==
    \A t \in Threads :
        /\ (frame[t].name = "top_users" /\ ret[t].kind = "list") =>
            LET q == ret[t].val
                d == data[t]
                m == Max(1, frame[t].amt)
            IN  /\ RankedTotals(q, d)
                /\ Len(q) = Min(m, Cardinality(Owners(d)))
                /\ \A u \in Owners(d) :
                    \/ \E i \in DOMAIN q : q[i][1] = u
                    \/ \A i \in DOMAIN q : q[i][2] >= SumOver(d, OwnedKeys(d, u))
                /\ (d = ExampleEntries /\ m >= 2) =>
                    q = <<(<<5, 150>>), (<<6, 10>>)>>
        /\ (frame[t].name = "user_total" /\ ret[t].kind = "money"
                /\ data[t] = ExampleEntries) =>
            ret[t].val =
                CASE frame[t].kk = <<"5">> -> 150
                  [] frame[t].kk = <<"6">> -> 10
                  [] OTHER -> 0

\* top_users has ranked the entries {"5": 100, "5:cat": 50, "6": 10}
C15_Witness ==
    \E t \in Threads :
        /\ pc[t] = "release"
        /\ frame[t].name = "top_users"
        /\ data[t] = ExampleEntries
        /\ ret[t] = RetList(<<(<<5, 150>>), (<<6, 10>>)>>)

\* --------------------------------------------------------------- C16
\* C16: for every integer n, negative ones included, to_gsk(from_knuts(n))
\* is (g, s, k) with 0 <= s < 17, 0 <= k < 29 and g*493 + s*29 + k = n, and
\* from_gsk(g, s, k) is from_knuts(n) again.
C16_RoundTrip ==
    \A t \in Threads :
        /\ frame[t].name = "to_gsk" =>
            LET g == ret[t].val[1]
                s == ret[t].val[2]
                k == ret[t].val[3]
            IN  /\ 0 <= s /\ s < 17
                /\ 0 <= k /\ k < 29
                /\ g * 493 + s * 29 + k = frame[t].amt
        /\ frame[t].name = "from_gsk" => ret[t] = RetMoney(frame[t].amt)

\* the round trip of -1 knut went through (-1, 16, 28)
C16_Witness ==
    \E t \in Threads :
        /\ frame[t].name = "to_gsk"
        /\ frame[t].amt = -1
        /\ ret[t] = RetList(<<-1, 16, 28>>)

\* --------------------------------------------------------------- C17
\* position p of t is inside a number that starts before p
InsideNumber(t, p) ==
    \E q \in 1..(p - 1) :
        /\ IsDigit(t[q])
        /\ \A r \in q..(p - 1) : IsDigit(t[r]) \/ t[r] = ","

\* a number (optional sign, a digit, digits and commas) starts at p
NumberStart(t, p) ==
    \/ IsSign(t[p]) /\ p < Len(t) /\ IsDigit(t[p + 1])
    \/ IsDigit(t[p]) /\ ~InsideNumber(t, p) /\ ~(p > 1 /\ IsSign(t[p - 1]))

\* the last position of the number that starts at p
NumberLast(t, p) ==
    CHOOSE e \in p..Len(t) :
        /\ \A r \in (p + 1)..e : IsDigit(t[r]) \/ t[r] = ","
        /\ e < Len(t) => ~(IsDigit(t[e + 1]) \/ t[e + 1] = ",")

\* the value of the number at p..e: its digits read in order, with its sign
NumberValue(t, p, e) ==
    LET IsDig(ch) == IsDigit(ch)
        v == IntOf(SelectSeq(SubSeq(t, p, e), IsDig))
    IN  IF t[p] = "-" THEN -v ELSE v

\* the word (letters, digits, underscores) that follows the number ending at
\* e, white space skipped
TagAfter(t, e) ==
    LET rest == LStrip(SubSeq(t, e + 1, Len(t)))
        n == CHOOSE m \in 0..Len(rest) :
                /\ \A i \in 1..m : IsWordChar(rest[i])
                /\ m < Len(rest) => ~IsWordChar(rest[m + 1])
    IN  SubSeq(rest, 1, n)

GalleonTags ==
    {<<"g">>, <<"g", "a", "l">>, <<"g", "a", "l", "l", "e", "o", "n">>,
     <<"g", "a", "l", "l", "e", "o", "n", "s">>}
SickleTags ==
    {<<"s">>, <<"s", "i", "c", "k", "l", "e">>, <<"s", "i", "c", "k", "l", "e", "s">>}

\* knuts per unit of the number that starts at p: 493 or 29 when a galleon
\* or sickle tag follows it, 1 when a knut tag or no tag follows it
UnitWorth(t, p) ==
    LET tag == TagAfter(t, NumberLast(t, p))
    IN  IF tag \in GalleonTags THEN 493
        ELSE IF tag \in SickleTags THEN 29
        ELSE 1

RECURSIVE SumWorth(_, _)
SumWorth(t, S) ==
    IF S = {} THEN 0
    ELSE LET p == CHOOSE x \in S : TRUE
         IN  NumberValue(t, p, NumberLast(t, p)) * UnitWorth(t, p)
                + SumWorth(t, S \ {p})

\* the amount the claim gives a text: every number counted once, in the
\* denomination of the unit tag that follows it, in knuts without one
ClaimedKnuts(text) ==
    IF text = None THEN 0
    ELSE LET t == Lower(text[1])
         IN  SumWorth(t, {p \in DOMAIN t : NumberStart(t, p)})

\* C17: from_str returns galleons*493 + sickles*29 + knuts, where every
\* number followed by a unit tag counts in that tag's denomination and every
\* other number counts as knuts; an input that is empty, blank, not a string
\* or without a number gives zero; no input raises.
C17_FromStr ==
    \A t \in Threads :
        frame[t].name = "from_str" =>
            /\ ret[t] = RetMoney(ClaimedKnuts(frame[t].kk))
            /\ (frame[t].kk = None
                    \/ \A i \in DOMAIN frame[t].kk[1] : ~IsDigit(frame[t].kk[1][i])) =>
                ret[t] = RetMoney(0)

\* "1g 1" was parsed: one galleon from the tagged token and one knut from
\* the bare number
C17_Witness ==
    \E t \in Threads :
        /\ frame[t].name = "from_str"
        /\ frame[t].kk = Some(<<"1", "g", " ", "1">>)
        /\ ret[t] = RetMoney(494)

\* t replaces character_links.json in this step, saving for operation `name`
LinkInstalls(t, name) ==
    pc[t] = "linkreplace" /\ pc'[t] = "linkrelease" /\ frame[t].name = name

\* t runs resolve_character in this step
Resolves(t) ==
    /\ pc[t] = "idle"
    /\ frame'[t].name = "resolve_character"
    /\ ret'[t].kind = "owner"

\* C18: once link_character(name, u) has saved, resolve_character(name)
\* finds u; once unlink_character(name) has found and removed a link,
\* resolve_character(name) finds None; and a call of resolve_character(name)
\* returns the owner the table holds under the key link_character stores
\* for that name.
C18_LinkThenResolve ==
    [][\A t \in Threads :
          /\ LinkInstalls(t, "link_character")
                => ResolveIn(linkfile'.data, frame[t].kk) = Some(frame[t].amt)
          /\ LinkInstalls(t, "unlink_character")
                => ResolveIn(linkfile'.data, frame[t].kk) = None
          /\ Resolves(t)
                => LET name == frame'[t].kk
                       key == normalize_or_fail(name)
                   IN  (~NormalizeFails(name) /\ key \in DOMAIN data'[t])
                          => ret'[t] = RetOwner(Some(data'[t][key]))]_vars

\* t replaces shops.json in this step
ShopSaves(t) == pc[t] = "shopsave" /\ pc'[t] = "return"

\* the stock of an item in the file
StockIn(f, item) == ShopLoad(f)[item].qty

\* C19: the mutating shop operations are serialized: the file a call saves
\* is its update applied to the file as it is when the call saves (no other
\* call has saved since it loaded), and a buy_item that sells q units finds
\* at least q in stock and leaves q fewer.
C19_ShopSerialized ==
    [][\A t \in Threads :
          ShopSaves(t) =>
              /\ frame[t].kk \in DOMAIN ShopLoad(shopfile)
                    \/ frame[t].name = "set_item"
              /\ shopfile' = Obj(ShopUpdate(frame[t], ShopLoad(shopfile)))
              /\ (frame[t].name = "buy_item"
                    /\ StockIn(shopfile, frame[t].kk) # None)
                    => /\ StockIn(shopfile, frame[t].kk)[1] >= frame[t].amt
                       /\ StockIn(shopfile', frame[t].kk)
                             = Some(StockIn(shopfile, frame[t].kk)[1]
                                       - frame[t].amt)]_vars

\* the record the file holds for entry e of the bucket of a day
Queued(f, day, e) ==
    /\ day \in DOMAIN PendingLoad(f)
    /\ e \in DOMAIN PendingLoad(f)[day]

\* C20: an entry with positive totals leaves pending_receipts.json only
\* when its summary receipt has been posted.
C20_RemovedOnceSummarized ==
    [][\A day \in 1..MaxDay :
          \A i \in DOMAIN PendingOrder :
              LET e == PendingOrder[i]
              IN  (/\ Queued(pending, day, e)
                   /\ ~Queued(pending', day, e)
                   /\ pending.data[day][e].knuts > 0
                   /\ pending.data[day][e].count > 0)
                      => Receipt(day, e, pending.data[day][e]) \in posted']_vars

\* the items of f and g other than `item` are the same
SameOtherItems(f, g, item) ==
    /\ (DOMAIN f) \ {item} = (DOMAIN g) \ {item}
    /\ \A i \in (DOMAIN f) \ {item} : f[i] = g[i]

\* C21: buy_item returns None and saves nothing when the item is missing or
\* its finite stock is below the quantity; otherwise it returns the unit
\* price times the quantity and saves the inventory it loaded with a finite
\* stock reduced by the quantity and an unlimited stock left unlimited; a
\* qty argument below 1 counts as 1.
C21_BuyItem ==
    [][\A t \in Threads :
          /\ Decides(t, "buy_item") =>
                LET item == frame'[t].kk
                    q == IF frame'[t].cur < 1 THEN 1 ELSE frame'[t].cur
                    d == ShopLoad(shopfile)
                IN  IF item \notin DOMAIN d
                       \/ (d[item].qty # None /\ d[item].qty[1] < q)
                    THEN /\ ret'[t] = RetNone
                         /\ pc'[t] = "return"
                         /\ shopfile' = shopfile
                    ELSE /\ ret'[t] = RetMoney(d[item].price_knuts * q)
                         /\ pc'[t] = "shopsave"
                         /\ item \in DOMAIN data'[t]
                         /\ SameOtherItems(data'[t], d, item)
                         /\ data'[t][item].price_knuts = d[item].price_knuts
                         /\ data'[t][item].qty =
                               IF d[item].qty = None THEN None
                               ELSE Some(d[item].qty[1] - q)
          /\ (ShopSaves(t) /\ frame[t].name = "buy_item")
                => shopfile' = Obj(data[t])]_vars

\* a buy_item called with qty 0 is about to save the last unit sold
C21_Witness ==
    \E t \in Threads :
        /\ pc[t] = "shopsave"
        /\ frame[t].name = "buy_item"
        /\ frame[t].cur = 0
        /\ data[t][frame[t].kk].qty = Some(0)

\* C22: the stock of every item in shops.json is the unlimited marker or an
\* integer >= 0, and so is the stock a call is about to save.
C22_StockNeverNegative ==
    /\ \A item \in DOMAIN ShopLoad(shopfile) :
          StockIn(shopfile, item) = None \/ StockIn(shopfile, item)[1] >= 0
    /\ \A t \in Threads :
          pc[t] = "shopsave" =>
              \A item \in DOMAIN data[t] :
                  data[t][item].qty = None \/ data[t][item].qty[1] >= 0

\* t runs the command `name` in this step
Runs(t, name) == pc[t] = "idle" /\ pc'[t] # "idle" /\ frame'[t].name = name

\* C23: when /shop buy ends for an existing item, either the wallet was
\* debited price times quantity and a finite stock was reduced by the
\* quantity, or neither the wallet nor the inventory changed.
C23_BuyConsistent ==
    [][\A t \in Threads :
          (Runs(t, "shop_buy") /\ frame'[t].kk # <<>>) =>
              LET kk == frame'[t].kk
                  item == frame'[t].rk
                  qty == frame'[t].amt
                  inv == ShopLoad(shopfile)
                  total == inv[item].price_knuts * qty
              IN  \/ /\ Bal(file', kk) = Bal(file, kk) - total
                     /\ item \in DOMAIN ShopLoad(shopfile')
                     /\ StockIn(shopfile', item) =
                           IF inv[item].qty = None THEN None
                           ELSE Some(inv[item].qty[1] - qty)
                  \/ /\ Bal(file', kk) = Bal(file, kk)
                     /\ ShopLoad(shopfile') = inv]_vars

\* C24: with the bypass off, a qualifying message of a linked character is
\* paid exactly when the clock is at least EARN_COOLDOWN_SECONDS past the
\* last paid message of the same (owner, character key), whatever the other
\* characters were paid; a paid message sets the character's timer to the
\* time of the message, a rejected one changes neither the timers nor the
\* wallets, and nothing else changes the timers.  Two paid messages of one
\* character are therefore at least EARN_COOLDOWN_SECONDS apart.
C24_Cooldown ==
    [][(/\ \A t \in Threads :
              (Runs(t, "on_message") /\ frame'[t].kk # <<>>) =>
                  LET kk == frame'[t].kk
                      key == <<1, frame'[t].rk>>
                      last == Get(last_earn_at, key)
                      paid == Bal(file', kk) = Bal(file, kk) + EARN_PER_MESSAGE
                  IN  /\ paid <=> (now - last >= EARN_COOLDOWN_SECONDS)
                      /\ paid =>
                            /\ last_earn_at' = Put(last_earn_at, key, now)
                            /\ \A k \in DOMAIN Load(file).val \ {kk} :
                                  Bal(file', k) = Bal(file, k)
                      /\ ~paid =>
                            (last_earn_at' = last_earn_at /\ file' = file)
                      /\ ret'[t] = RetBool(paid)
        /\ ((\A u \in Threads : ~Runs(u, "on_message")) =>
               last_earn_at' = last_earn_at)
        /\ now' >= now)]_vars

\* a character is paid a second time, a full cooldown after its first
\* payment, while the other character of the owner was paid in between
C24_Witness ==
    \E t \in Threads :
        /\ pc[t] = "return"
        /\ frame[t].name = "on_message"
        /\ ret[t] = RetBool(TRUE)
        /\ frame[t].cur > 0
        /\ frame[t].amt - frame[t].cur = EARN_COOLDOWN_SECONDS
        /\ \E k \in DOMAIN last_earn_at :
              last_earn_at[k] > frame[t].cur /\ last_earn_at[k] < frame[t].amt

\* C25: starter funds go only to a brand-new wallet, one the store holds no
\* balance for.  Under SpecStarter a wallet enters the store only by a
\* grant, so this says each wallet is granted STARTER_FUNDS at most once.
C25_StarterOnce ==
    [][\A t \in Threads :
          (/\ Runs(t, "link_character")
           /\ Bal(file', frame'[t].kk) = Bal(file, frame'[t].kk) + STARTER_FUNDS)
          => frame'[t].kk \notin DOMAIN Load(file).val]_vars

\* the sum of all balances stored in f
Total(f) == IF f.kind = "obj" THEN SumOver(f.data, DOMAIN f.data) ELSE 0

\* what the operation of frame f adds to the sum when its save is installed
\* over the stored file g
TotalDelta(f, g) ==
    CASE f.name = "set_balance" -> f.amt - Bal(g, f.kk)
      [] f.name = "add_balance" -> f.amt
      [] f.name = "subtract_if_enough" -> 0 - f.amt
      [] OTHER -> 0

\* C26: the sum of all balances in the store changes only when set_balance,
\* add_balance or a successful subtract_if_enough installs its save, and
\* then by the amount the operation applies; transfer and
\* rename_character_key, successful or not, leave the sum as it was.
C26_Conserved ==
    [][(/\ \A t \in Threads :
              Installs(t) =>
                  Total(file') = Total(file) + TotalDelta(frame[t], file)
        /\ ((\A u \in Threads : ~Installs(u)) => Total(file') = Total(file))
       )]_vars

\* a transfer has been installed: the receiver holds money the sender gave
C26_Witness ==
    /\ Total(file) > 0
    /\ \E t \in Threads :
          /\ pc[t] = "release"
          /\ frame[t].name = "transfer"
          /\ frame[t].amt > 0
          /\ Bal(file, frame[t].rk) > 0
          /\ Bal(file, frame[t].kk) = frame[t].cur - frame[t].amt
\* C27: no other handler can observe a tip half done: when /tip suspends,
\* the sender wallet and the receiver wallet together hold what they held
\* before the command.
C27_TipAtomic ==
    [][\A t \in Threads :
          (Runs(t, "tip") /\ pc'[t] = "await") =>
              Bal(file', frame'[t].kk) + Bal(file', frame'[t].rk) =
                  Bal(file, frame'[t].kk) + Bal(file, frame'[t].rk)]_vars

\* C28: the final save of flush_daily_receipts loses no earning queued
\* while the flush was suspended: every record the pending file holds for
\* a day other than the flushed one is still there, with the same totals,
\* after the save.
C28_QueuedSurvivesFlush ==
    [][\A t \in Threads :
          (/\ pc[t] = "flush"
           /\ pc'[t] = "return"
           /\ frame[t].name = "flush_daily_receipts")
          => \A day \in (1..MaxDay) \ {frame[t].amt} :
                \A i \in DOMAIN PendingOrder :
                    Queued(pending, day, PendingOrder[i])
                    => /\ Queued(pending', day, PendingOrder[i])
                       /\ pending'.data[day][PendingOrder[i]] =
                             pending.data[day][PendingOrder[i]]]_vars

\* C29: starting from a store without negative balances, no sequence of bot
\* commands leaves a wallet with a negative balance.
C29_NoNegativeWallet ==
    \A k \in DOMAIN Load(file).val : Load(file).val[k] >= 0

\* the load of f fails inside the try of _load
LoadFails(f) == f.kind \in {"garbage", "unreadable"}

\* C30: when the load of a mutating operation fails on unparseable content
\* or on a read error, the operation goes on from an empty map: set_balance
\* and add_balance save a file that holds the mutated key and nothing else,
\* and subtract_if_enough and transfer see balance 0, return False and write
\* nothing.
C30_LoadFailure ==
    [][\A t \in Threads :
          /\ ((\/ Decides(t, "set_balance")
               \/ Decides(t, "add_balance")) /\ lock' = t /\ LoadFails(file))
             => /\ pc'[t] = "open"
                /\ data'[t] = Put(EmptyMap, frame'[t].kk, frame'[t].amt)
          /\ (/\ Installs(t)
              /\ frame[t].name \in {"set_balance", "add_balance"}
              /\ LoadFails(file))
             => file' = Obj(Put(EmptyMap, frame[t].kk, frame[t].amt))
          /\ ((\/ Decides(t, "subtract_if_enough")
               \/ Decides(t, "transfer")) /\ lock' = t /\ LoadFails(file))
             => /\ ret'[t] = RetBool(FALSE)
                /\ frame'[t].cur = 0
                /\ pc'[t] = "release"
          /\ (/\ pc'[t] # pc[t]
              /\ frame[t].name \in {"subtract_if_enough", "transfer"}
              /\ LoadFails(file))
             => file' = file]_vars

\* add_balance installed its save over valid entries it could not read: the
\* file holds its key alone
C30_Witness ==
    \E t \in Threads :
        /\ pc[t] = "release"
        /\ frame[t].name = "add_balance"
        /\ frame[t].amt # 0
        /\ file = Obj(Put(EmptyMap, frame[t].kk, frame[t].amt))
        /\ frame[t].kk \notin {<<"1">>, <<"2">>}

====
